---- MODULE Spec2Model ----
(***************************************************************************)
(* Model of the tax-document extraction engine of                          *)
(* src/lib/azure-document-intelligence-service.ts                          *)
(* (class AzureDocumentIntelligenceService).                               *)
(*                                                                         *)
(* A transcript is a sequence of printed lines; the OCR text is the lines  *)
(* joined by newlines.  Text is handled as a tuple of character codes so   *)
(* that lower-casing and substring search are computed, not assumed.       *)
(***************************************************************************)
EXTENDS Integers, Sequences, FiniteSets, TLC

VARIABLES
  cpc,            \* classifier run: position
  cText,          \* classifier run: the transcript being classified
  w2Score,        \* detectFormType: let w2Score
  form1099Score,  \* detectFormType: let form1099Score
  formType,       \* analyzeDocumentTypeFromOCR: const formType
  subScores,      \* detectSpecific1099Type: score of each formPattern
  ocrBasedType,   \* analyzeDocumentTypeFromOCR: returned type
  mpc,            \* 1099-MISC pass: position
  fields,         \* result.documents[0].fields: vendor field name -> value
  content,        \* result.content: the OCR document
  data,           \* process1099MiscFields: const data
  mapped,         \* data as the mapping loop left it
  structuredData, \* validateAndCorrect1099MiscFields: parameter
  ocrData,        \* validateAndCorrect1099MiscFields: const ocrData
  result,         \* the object process1099MiscFields returns
  opc,            \* extractDataFromDocument: position
  documentType,   \* extractDataFromDocument: parameter
  documentPathOrBuffer, \* extractDataFromDocument: parameter (kind of)
  vendor,         \* how the remote service behaves during the call
  calls,          \* the calls of beginAnalyzeDocument so far: model id and outcome
  modelError,     \* the error caught by the inner catch
  error,          \* the error caught by the outer catch
  apiResult,      \* result, or fallbackResult on the OCR path
  usedPath,       \* "structured" or "ocr": which extraction produced extractedData
  extractedData,  \* extractDataFromDocument: let extractedData
  detectedType,   \* extractDataFromDocument: const ocrBasedType
  correctedDocumentType, \* extractDataFromDocument: let correctedDocumentType
  returned,       \* the object the call resolves with
  thrown,         \* message of the error the call rejects with
  requests,       \* concurrent calls: the arguments and the vendor's behaviour of each
  runs,           \* concurrent calls: the locals of each call of extractDataFromDocument
  schedule,       \* concurrent calls: the order in which the calls were resumed
  verdicts,       \* repeated classifier calls: text, scores and type of each call so far
  apc,            \* address decomposer: position
  aAddress,       \* extractAddressParts: parameter fullAddress
  aOcrText,       \* extractAddressParts: parameter ocrText
  aParts,         \* extractAddressParts: the object returned for aAddress
  aStreetParts,   \* extractAddressParts: the object returned for the street of aParts
  tpc,            \* tax-line mapper: position
  tW2Data,        \* mapW2ToForm1040: parameter w2Data
  tExisting,      \* mapW2ToForm1040: parameter existingForm1040
  tForm,          \* mapW2ToForm1040: const form1040Data
  kpc,            \* pattern cascades: position
  kTranscript,    \* ocrText, as what each pattern captures in it
  kData,          \* what the cascade returns: data, or the wages
  bpc,            \* Box 3 extraction: position
  bText,          \* extractBox3OtherIncomeWithFallback: parameter ocrText
  bFound,         \* the tier that returned, and the amount returned
  bData,          \* extract1099MiscFieldsFromOCR: data, after Box 3
  npc,            \* party information: position
  nFound,         \* what the name and address patterns find in the transcript
  nInfo,          \* personalInfo, as returned
  qpc,            \* POST form-1040: position of each request
  qRequests,      \* the requests: form1040Data.taxYear, and whether the user owns the tax return
  qFound,         \* existingForm1040Doc of each request (0: none)
  qDocuments,     \* the documents stored for the tax return
  qTaxReturn      \* the request that last updated the tax return (0: none)

cvars == <<cpc, cText, w2Score, form1099Score, formType, subScores, ocrBasedType>>

mvars == <<mpc, fields, content, data, mapped, structuredData, ocrData, result>>

ovars == <<opc, documentType, documentPathOrBuffer, vendor, calls, modelError, error,
           apiResult, usedPath, extractedData, detectedType, correctedDocumentType,
           returned, thrown>>

pvars == <<requests, runs, schedule>>

avars == <<apc, aAddress, aOcrText, aParts, aStreetParts>>

tvars == <<tpc, tW2Data, tExisting, tForm>>

kvars == <<kpc, kTranscript, kData>>

bvars == <<bpc, bText, bFound, bData>>

nvars == <<npc, nFound, nInfo>>

qvars == <<qpc, qRequests, qFound, qDocuments, qTaxReturn>>

vars == <<cvars, mvars, ovars, pvars, verdicts, avars, tvars, kvars, bvars, nvars, qvars>>

\* what a classifier run leaves alone, and what a 1099-MISC pass leaves alone
cRest == <<mvars, ovars, pvars, verdicts, avars, tvars, kvars, bvars, nvars, qvars>>
mRest == <<cvars, ovars, pvars, verdicts, avars, tvars, kvars, bvars, nvars, qvars>>
oRest == <<cvars, mvars, pvars, verdicts, avars, tvars, kvars, bvars, nvars, qvars>>
pRest == <<cvars, mvars, ovars, verdicts, avars, tvars, kvars, bvars, nvars, qvars>>
aRest == <<cvars, mvars, ovars, pvars, verdicts, tvars, kvars, bvars, nvars, qvars>>
tRest == <<cvars, mvars, ovars, pvars, verdicts, avars, kvars, bvars, nvars, qvars>>
kRest == <<cvars, mvars, ovars, pvars, verdicts, avars, tvars, bvars, nvars, qvars>>
bRest == <<cvars, mvars, ovars, pvars, verdicts, avars, tvars, kvars, nvars, qvars>>
nRest == <<cvars, mvars, ovars, pvars, verdicts, avars, tvars, kvars, bvars, qvars>>
qRest == <<cvars, mvars, ovars, pvars, verdicts, avars, tvars, kvars, bvars, nvars>>

\* no classifier run
ClassifierOff ==
  /\ cpc = "off"
  /\ cText = <<>>
  /\ w2Score = 0
  /\ form1099Score = 0
  /\ formType = "none"
  /\ subScores = <<>>
  /\ ocrBasedType = "none"

\* no call of extractDataFromDocument
ExtractOff ==
  /\ opc = "off"
  /\ documentType = ""
  /\ documentPathOrBuffer = ""
  /\ vendor = <<>>
  /\ calls = <<>>
  /\ modelError = <<>>
  /\ error = <<>>
  /\ apiResult = <<>>
  /\ usedPath = "none"
  /\ extractedData = <<>>
  /\ detectedType = "none"
  /\ correctedDocumentType = <<>>
  /\ returned = <<>>
  /\ thrown = ""

\* no run of the tax-line mapper
TaxLineOff ==
  /\ tpc = "off"
  /\ tW2Data = <<>>
  /\ tExisting = <<>>
  /\ tForm = <<>>

\* no run of the pattern cascades
CascadeOff ==
  /\ kpc = "off"
  /\ kTranscript = <<>>
  /\ kData = <<>>

\* no run of the Box 3 extraction
Box3Off ==
  /\ bpc = "off"
  /\ bText = ""
  /\ bFound = <<>>
  /\ bData = <<>>

\* no run of the party information extractor
PartyOff ==
  /\ npc = "off"
  /\ nFound = <<>>
  /\ nInfo = <<>>

\* no POST of Form 1040 data
SaveOff ==
  /\ qpc = <<>>
  /\ qRequests = <<>>
  /\ qFound = <<>>
  /\ qDocuments = <<>>
  /\ qTaxReturn = 0

\* no run of the address decomposer
AddressOff ==
  /\ apc = "off"
  /\ aAddress = ""
  /\ aOcrText = ""
  /\ aParts = <<>>
  /\ aStreetParts = <<>>

\* no concurrent calls, and no repeated classifier calls
ConcurrentOff ==
  /\ requests = <<>>
  /\ runs = <<>>
  /\ schedule = <<>>
  /\ verdicts = <<>>

\* no 1099-MISC pass
MiscOff ==
  /\ mpc = "off"
  /\ fields = <<>>
  /\ content = <<>>
  /\ data = <<>>
  /\ mapped = <<>>
  /\ structuredData = <<>>
  /\ ocrData = <<>>
  /\ result = <<>>

----------------------------------------------------------------------------
(* Characters and strings *)

Alphabet == " \n$,.-'/:0123456789abcdefghijklmnopqrstuvwxyzABCDEFGHIJKLMNOPQRSTUVWXYZ"

Code == [c \in {SubSeq(Alphabet, i, i) : i \in 1..Len(Alphabet)} |->
           CHOOSE i \in 1..Len(Alphabet) : SubSeq(Alphabet, i, i) = c]

\* the character codes of a string
Codes(s) == [i \in 1..Len(s) |-> Code[SubSeq(s, i, i)]]

UpperA == Code["A"]
UpperZ == Code["Z"]
LowerA == Code["a"]

\* String.prototype.toLowerCase on a tuple of codes
ToLowerCase(t) ==
  [i \in 1..Len(t) |-> IF t[i] >= UpperA /\ t[i] <= UpperZ THEN t[i] - UpperA + LowerA ELSE t[i]]

\* String.prototype.includes on tuples of codes
Includes(t, s) ==
  \E i \in 1..(Len(t) - Len(s) + 1) : \A k \in 1..Len(s) : t[i + k - 1] = s[k]

RECURSIVE JoinLines(_)
\* the OCR text of a transcript: its lines joined by "\n"
JoinLines(lines) ==
  IF lines = <<>> THEN <<>>
  ELSE IF Len(lines) = 1 THEN Codes(lines[1])
  ELSE Codes(lines[1]) \o Codes("\n") \o JoinLines(Tail(lines))

\* number of the indicators that occur in the text
CountHits(text, indicators) ==
  Cardinality({j \in 1..Len(indicators) : Includes(text, Codes(indicators[j]))})

----------------------------------------------------------------------------
(* Document Subtype Classifier *)

w2Indicators ==
  << "form w-2", "wage and tax statement", "wages, tips, other compensation",
     "federal income tax withheld", "social security wages", "medicare wages" >>

form1099Indicators == << "form 1099", "1099-", "payer", "recipient", "tin" >>

\* a tie decided for the W-2 family
FormTypeOf_TieToW2(w2, f1099) ==
  IF w2 >= f1099 /\ w2 > 0 THEN "W2"
  ELSE IF f1099 > 0 THEN "1099"
  ELSE "UNKNOWN"

\* detectFormType's decision on the two scores
FormTypeOf(w2, f1099) ==
  IF w2 > f1099 THEN "W2"
  ELSE IF f1099 > 0 THEN "1099"
  ELSE "UNKNOWN"

formTypePatterns ==
  << [type |-> "FORM_1099_DIV",
      indicators |-> << "form 1099-div", "dividends and distributions", "ordinary dividends",
                        "qualified dividends", "total capital gain distributions",
                        "capital gain distributions" >>],
     [type |-> "FORM_1099_INT",
      indicators |-> << "form 1099-int", "interest income", "early withdrawal penalty",
                        "interest on u.s. treasury obligations", "investment expenses" >>],
     [type |-> "FORM_1099_MISC",
      indicators |-> << "form 1099-misc", "miscellaneous income", "nonemployee compensation",
                        "rents", "royalties", "fishing boat proceeds" >>],
     [type |-> "FORM_1099_NEC",
      indicators |-> << "form 1099-nec", "nonemployee compensation", "nec" >>] >>

\* a classifier whose scores are kept between calls and never reset
SubtypeScores_Accumulating(text) ==
  [p \in 1..Len(formTypePatterns) |->
     (IF subScores = <<>> THEN 0 ELSE subScores[p])
     + CountHits(text, formTypePatterns[p].indicators)]

\* the score of each form pattern, in the order of formTypePatterns: each
\* starts from let score = 0
SubtypeScores(text) ==
  [p \in 1..Len(formTypePatterns) |-> CountHits(text, formTypePatterns[p].indicators)]

RECURSIVE BestMatch_LastWins(_, _, _)
\* the scoring loop with >= in place of >: the last of the tied patterns wins
BestMatch_LastWins(scores, p, best) ==
  IF p > Len(scores) THEN best
  ELSE BestMatch_LastWins(scores, p + 1,
                 IF scores[p] >= best.score /\ scores[p] > 0
                 THEN [type |-> formTypePatterns[p].type, score |-> scores[p]]
                 ELSE best)

RECURSIVE BestMatch(_, _, _)
\* the scoring loop of detectSpecific1099Type: best is replaced only by a
\* strictly higher score
BestMatch(scores, p, best) ==
  IF p > Len(scores) THEN best
  ELSE BestMatch(scores, p + 1,
                 IF scores[p] > best.score
                 THEN [type |-> formTypePatterns[p].type, score |-> scores[p]]
                 ELSE best)

Specific1099TypeOf(scores) ==
  BestMatch(scores, 1, [type |-> "FORM_1099_MISC", score |-> 0]).type

DetectFormType(ocrText) ==
  LET text == ToLowerCase(ocrText)
  IN FormTypeOf(CountHits(text, w2Indicators), CountHits(text, form1099Indicators))

DetectSpecific1099Type(ocrText) ==
  Specific1099TypeOf(SubtypeScores(ToLowerCase(ocrText)))

AnalyzeDocumentTypeFromOCR(ocrText) ==
  LET ft == DetectFormType(ToLowerCase(ocrText))
  IN IF ft = "W2" THEN "W2"
     ELSE IF ft = "1099" THEN DetectSpecific1099Type(ocrText)
     ELSE "UNKNOWN"

----------------------------------------------------------------------------
(* Classifier runs over bounded transcripts *)

\* lines a scanned form can carry
ClassifierLines ==
  << "Form W-2 Wage and Tax Statement",
     "1 Wages, tips, other compensation",
     "4 Federal income tax withheld",
     "Form 1099-DIV",
     "Form 1099-INT",
     "PAYER'S name",
     "RECIPIENT'S TIN",
     "1a Total ordinary dividends",
     "1 Interest income",
     "7 Nonemployee compensation",
     "1 Rents",
     "2 Royalties",
     "Dividends and distributions",
     "Acme Holdings" >>

MaxLines == 3

\* transcripts of at most MaxLines lines, taken in the order of ClassifierLines
RECURSIVE PickLines(_, _)
PickLines(from, n) ==
  IF n = 0 \/ from > Len(ClassifierLines) THEN {<<>>}
  ELSE {<<>>} \cup
       UNION { { <<ClassifierLines[j]>> \o rest : rest \in PickLines(j + 1, n - 1) }
               : j \in from..Len(ClassifierLines) }

ClassifierTranscripts == PickLines(1, MaxLines)

NoScores == [p \in 1..Len(formTypePatterns) |-> 0]

InitClassify ==
  /\ cpc = "start"
  /\ cText \in ClassifierTranscripts
  /\ w2Score = 0
  /\ form1099Score = 0
  /\ formType = "none"
  /\ subScores = NoScores
  /\ ocrBasedType = "none"
  /\ MiscOff
  /\ ExtractOff
  /\ ConcurrentOff
  /\ AddressOff
  /\ TaxLineOff
  /\ CascadeOff
  /\ Box3Off
  /\ PartyOff
  /\ SaveOff

\* analyzeDocumentTypeFromOCR up to the call of detectFormType
DetectFormTypeStep ==
  /\ cpc = "start"
  /\ LET text == ToLowerCase(ToLowerCase(JoinLines(cText)))
         w2 == CountHits(text, w2Indicators)
         f1099 == CountHits(text, form1099Indicators)
     IN /\ w2Score' = w2
        /\ form1099Score' = f1099
        /\ formType' = FormTypeOf(w2, f1099)
  /\ cpc' = "typed"
  /\ UNCHANGED <<cText, subScores, ocrBasedType>>
  /\ UNCHANGED cRest

\* analyzeDocumentTypeFromOCR: W2 and UNKNOWN return at once
ReturnFamily ==
  /\ cpc = "typed"
  /\ formType # "1099"
  /\ ocrBasedType' = formType
  /\ cpc' = "done"
  /\ UNCHANGED <<cText, w2Score, form1099Score, formType, subScores>>
  /\ UNCHANGED cRest

\* analyzeDocumentTypeFromOCR: a 1099 goes through detectSpecific1099Type
DetectSpecific1099TypeStep ==
  /\ cpc = "typed"
  /\ formType = "1099"
  /\ LET scores == SubtypeScores(ToLowerCase(JoinLines(cText)))
     IN /\ subScores' = scores
        /\ ocrBasedType' = Specific1099TypeOf(scores)
  /\ cpc' = "done"
  /\ UNCHANGED <<cText, w2Score, form1099Score, formType>>
  /\ UNCHANGED cRest

NextClassify == DetectFormTypeStep \/ ReturnFamily \/ DetectSpecific1099TypeStep

SpecClassify == InitClassify /\ [][NextClassify]_vars

----------------------------------------------------------------------------
(* Repeated calls of detectSpecific1099Type on one service instance *)

MaxCalls == 3

\* the transcripts the subtype classifier is called on
RepeatTranscripts ==
  { <<>>,
    <<"Acme Holdings">>,
    <<"Form 1099-DIV", "1a Total ordinary dividends">>,
    <<"Form 1099-INT", "1 Interest income">>,
    <<"7 Nonemployee compensation">>,
    <<"1a Total ordinary dividends", "1 Interest income">> }

InitRepeat ==
  /\ cpc = "idle"
  /\ cText = <<>>
  /\ w2Score = 0
  /\ form1099Score = 0
  /\ formType = "none"
  /\ subScores = NoScores
  /\ ocrBasedType = "none"
  /\ verdicts = <<>>
  /\ requests = <<>>
  /\ runs = <<>>
  /\ schedule = <<>>
  /\ MiscOff
  /\ ExtractOff
  /\ AddressOff
  /\ TaxLineOff
  /\ CascadeOff
  /\ Box3Off
  /\ PartyOff
  /\ SaveOff

\* one call of detectSpecific1099Type(ocrText), from entry to return
DetectSpecific1099TypeCall ==
  /\ Len(verdicts) < MaxCalls
  /\ \E ocrText \in RepeatTranscripts :
       LET scored(scores) ==
             /\ subScores' = scores
             /\ ocrBasedType' = Specific1099TypeOf(scores)
             /\ verdicts' = Append(verdicts, [text |-> ocrText, scores |-> scores,
                                              type |-> Specific1099TypeOf(scores)])
       IN /\ cText' = ocrText
          /\ scored(SubtypeScores(ToLowerCase(JoinLines(ocrText))))
  /\ cpc' = "done"
  /\ UNCHANGED <<w2Score, form1099Score, formType>>
  /\ UNCHANGED <<mvars, ovars, pvars, avars, tvars, kvars, bvars, nvars, qvars>>

NextRepeat == DetectSpecific1099TypeCall

SpecRepeat == InitRepeat /\ [][NextRepeat]_vars

----------------------------------------------------------------------------
(* JavaScript values and objects *)

\* a value is tagged with its typeof; an object is a function from its own
\* keys to values, so an absent key is told apart from a key holding 0 or ""
Undefined == [k |-> "undefined"]
Num(n) == [k |-> "number", v |-> n]
Str(s) == [k |-> "string", v |-> s]
Arr(a) == [k |-> "array", v |-> a]
Obj(o) == [k |-> "object", v |-> o]
\* an OCR text (a string; see the section on OCR documents)
FullText(ocrText) == [k |-> "text", v |-> ocrText]

EmptyObject == [x \in {} |-> Undefined]

Get(obj, key) == IF key \in DOMAIN obj THEN obj[key] ELSE Undefined

Put(obj, key, val) ==
  [x \in DOMAIN obj \cup {key} |-> IF x = key THEN val ELSE obj[x]]

\* object spread { ...a, ...b }
Spread(a, b) ==
  [x \in DOMAIN a \cup DOMAIN b |-> IF x \in DOMAIN b THEN b[x] ELSE a[x]]

\* ToBoolean
Truthy(val) ==
  CASE val.k = "number" -> val.v # 0
    [] val.k = "string" -> val.v # ""
    [] val.k = "array" -> TRUE
    [] val.k = "boolean" -> val.v
    [] val.k = "object" -> TRUE
    [] val.k = "text" -> val.v.lines # <<>>
    [] OTHER -> FALSE

Abs(n) == IF n < 0 THEN -n ELSE n

Digit0 == Code["0"]
Digit9 == Code["9"]

IsDigit(c) == c >= Digit0 /\ c <= Digit9

\* the characters removed by replace(/[$,\s]/g, '')
AmountNoise == {Code["$"], Code[","], Code[" "], Code["\n"]}

\* length of the leading run of digits of t
DigitPrefix(t) ==
  CHOOSE n \in 0..Len(t) :
    /\ \A i \in 1..n : IsDigit(t[i])
    /\ n < Len(t) => ~IsDigit(t[n + 1])

RECURSIVE DecimalValue(_, _)
\* the number written by the first n digits of t
DecimalValue(t, n) ==
  IF n = 0 THEN 0 ELSE 10 * DecimalValue(t, n - 1) + (t[n] - Digit0)

\* parseFloat on whole-dollar strings (amounts are modelled in whole dollars):
\* an optional minus sign, then the leading digits; no digit gives NaN
ParseFloat(t) ==
  LET neg == t # <<>> /\ t[1] = Code["-"]
      body == IF neg THEN Tail(t) ELSE t
      n == DigitPrefix(body)
  IN [isNaN |-> n = 0,
      v |-> IF neg THEN 0 - DecimalValue(body, n) ELSE DecimalValue(body, n)]

\* parseAmount: a number is returned as it is, a string is cleaned and parsed
\* with NaN read as 0, anything else is 0
parseAmount(val) ==
  CASE val.k = "number" -> val.v
    [] val.k = "string" ->
         LET parsed == ParseFloat(SelectSeq(Codes(val.v), LAMBDA c : c \notin AmountNoise))
         IN IF parsed.isNaN THEN 0 ELSE parsed.v
    [] OTHER -> 0

----------------------------------------------------------------------------
(* Strings as tuples of character codes *)

RECURSIVE FromCodes(_)
\* the string with the given character codes
FromCodes(t) ==
  IF t = <<>> THEN "" ELSE SubSeq(Alphabet, t[1], t[1]) \o FromCodes(Tail(t))

\* \s
WhiteSpace == {Code[" "], Code["\n"]}

IsUpper(c) == c >= UpperA /\ c <= UpperZ

IsLetter(c) == IsUpper(c) \/ (c >= LowerA /\ c <= Code["z"])

\* \w
IsWordChar(c) == IsLetter(c) \/ IsDigit(c)

\* the least and the greatest of a set of positions, 0 if there is none
Least(S) == IF S = {} THEN 0 ELSE CHOOSE a \in S : \A b \in S : a <= b
Greatest(S) == IF S = {} THEN 0 ELSE CHOOSE a \in S : \A b \in S : a >= b

\* String.prototype.trim
Trim(t) ==
  LET span(keep) == IF keep = {} THEN <<>> ELSE SubSeq(t, Least(keep), Greatest(keep))
  IN span({i \in 1..Len(t) : t[i] \notin WhiteSpace})

\* replace(/\s+/g, ' '): every run of white space becomes one blank
CollapseSpaces(t) ==
  LET blanks(kept) ==
        [i \in 1..Len(kept) |-> IF kept[i][2] \in WhiteSpace THEN Code[" "] ELSE kept[i][2]]
  IN blanks(SelectSeq([i \in 1..Len(t) |-> <<i, t[i]>>],
                      LAMBDA p : p[2] \notin WhiteSpace
                                 \/ p[1] = 1 \/ t[p[1] - 1] \notin WhiteSpace))

\* replace(/,$/, '')
DropTrailingComma(t) ==
  IF t # <<>> /\ t[Len(t)] = Code[","] THEN SubSeq(t, 1, Len(t) - 1) ELSE t

\* split(/\s+/) of a trimmed string with single blanks: the words, in order
Words(t) ==
  LET starts == {i \in 1..Len(t) : t[i] \notin WhiteSpace /\ (i = 1 \/ t[i - 1] \in WhiteSpace)}
      ends == {i \in 1..Len(t) : t[i] \notin WhiteSpace /\ (i = Len(t) \/ t[i + 1] \in WhiteSpace)}
      nth(S, n) == CHOOSE i \in S : Cardinality({j \in S : j <= i}) = n
  IN [n \in 1..Cardinality(starts) |-> SubSeq(t, nth(starts, n), nth(ends, n))]

RECURSIVE JoinWords(_)
\* join(' ')
JoinWords(ws) ==
  IF ws = <<>> THEN <<>>
  ELSE IF Len(ws) = 1 THEN ws[1]
  ELSE ws[1] \o <<Code[" "]>> \o JoinWords(Tail(ws))

----------------------------------------------------------------------------
(* Address decomposer *)

AllDigits(t, from, to) == \A i \in from..to : IsDigit(t[i])

\* length of the match of (\d{5}(?:-\d{4})?)$ at the end of t, 0 if none
ZipLength(t) ==
  LET n == Len(t)
  IN IF n >= 10 /\ AllDigits(t, n - 9, n - 5) /\ t[n - 4] = Code["-"] /\ AllDigits(t, n - 3, n)
     THEN 10
     ELSE IF n >= 5 /\ AllDigits(t, n - 4, n) THEN 5
     ELSE 0

\* number of white space characters of t that end at position at
SpacesBefore(t, at) ==
  CHOOSE k \in 0..at : /\ \A i \in (at - k + 1)..at : t[i] \in WhiteSpace
                       /\ (k < at => t[at - k] \notin WhiteSpace)

\* position of the two capitals of ([A-Z]{2})\s+(\d{5}(?:-\d{4})?)$, 0 if none
StateStart(t) ==
  LET z == ZipLength(t)
      gap == IF z = 0 THEN 0 ELSE SpacesBefore(t, Len(t) - z)
      s == Len(t) - z - gap - 1
  IN IF z > 0 /\ gap > 0 /\ s >= 1 /\ IsUpper(t[s]) /\ IsUpper(t[s + 1]) THEN s ELSE 0

\* a city part without its opening comma
CityBody(r) == IF r # <<>> /\ r[1] = Code[","] THEN Tail(r) ELSE r

\* the positions of the commas of t
Commas(t) == {i \in 1..Len(t) : t[i] = Code[","]}

\* r can be read as (?:,\s*)?([A-Za-z\s]+?)(?:,\s*)? up to its end: letters
\* and white space, closed by at most one comma and white space
IsCityPart(r) ==
  LET shaped(body, commas) ==
        /\ body # <<>>
        /\ \A i \in 1..Len(body) :
             IsLetter(body[i]) \/ body[i] \in WhiteSpace \/ i \in commas
        /\ Cardinality(commas) <= 1
        /\ \A i \in commas : i > 1 /\ \A j \in (i + 1)..Len(body) : body[j] \in WhiteSpace
      fits(body) == shaped(body, Commas(body))
  IN fits(CityBody(r))

\* the city group of a city part: what precedes its closing comma
CityGroup(r) ==
  LET group(body, commas) ==
        IF commas = {} THEN body ELSE SubSeq(body, 1, Least(commas) - 1)
      of(body) == group(body, Commas(body))
  IN of(CityBody(r))

\* Pattern 1, /^(.+?)(?:,\s*)?([A-Za-z\s]+?)(?:,\s*)?([A-Z]{2})\s+(\d{5}(?:-\d{4})?)$/:
\* the length of the shortest street group for which the rest matches, 0 if
\* the pattern does not match
StandardStreetLength(t) ==
  LET shortest(s) == Least({a \in 1..(s - 2) : IsCityPart(SubSeq(t, a + 1, s - 1))})
  IN shortest(StateStart(t))

\* Pattern 3, /\b([A-Z]{2})\s+\d{5}(?:-\d{4})?$/
StatePatternStart(t) ==
  LET atBoundary(s) == IF s > 1 /\ IsWordChar(t[s - 1]) THEN 0 ELSE s
  IN atBoundary(StateStart(t))

\* Pattern 4, new RegExp(`(.+?)\s+${state}\s+\d{5}`, 'i'): the leftmost match,
\* as <<start, length of the group>>, <<0, 0>> if none
CityPatternMatch(t, state) ==
  LET ends(i, n) ==
        \* group t[i..i+n-1], then a blank, the state, a blank and five digits
        \* (t has single blanks only)
        LET p == i + n + 1
            q == p + 3
        IN /\ q + 4 <= Len(t)
           /\ t[i + n] \in WhiteSpace
           /\ ToLowerCase(SubSeq(t, p, p + 1)) = ToLowerCase(state)
           /\ t[p + 2] \in WhiteSpace
           /\ AllDigits(t, q, q + 4)
      leftmost(hits) ==
        IF hits = {} THEN <<0, 0>>
        ELSE CHOOSE m \in hits : \A o \in hits : m[1] < o[1] \/ (m[1] = o[1] /\ m[2] <= o[2])
  IN leftmost({m \in (1..Len(t)) \X (1..Len(t)) : ends(m[1], m[2])})

\* a fallback that keeps the first word of the address only
RemainingStreet_FirstWord(t, parts) ==
  SubSeq(t, 1, Least({i \in 1..Len(t) : t[i] \in WhiteSpace} \cup {Len(t) + 1}) - 1)

\* the fallback of extractAddressParts: the address without ZIP code and state
RemainingStreet(t, parts) ==
  LET r1 == IF "zipCode" \in DOMAIN parts
            THEN LET z == Len(parts["zipCode"])
                 IN SubSeq(t, 1, Len(t) - z - SpacesBefore(t, Len(t) - z))
            ELSE t
      r2 == IF "state" \in DOMAIN parts
            THEN LET tail == SpacesBefore(r1, Len(r1))
                     e == Len(r1) - tail
                 IN IF e >= 2 /\ ToLowerCase(SubSeq(r1, e - 1, e)) = ToLowerCase(parts["state"])
                    THEN SubSeq(r1, 1, e - 2 - SpacesBefore(r1, e - 2))
                    ELSE r1
            ELSE r1
  IN Trim(r2)

\* Pattern 4 of extractAddressParts: city and street by the word heuristic;
\* of more than three words before the state the last two are the city, of
\* two or three the last one, and the words before it are the street
WithCityHeuristic(t, parts) ==
  LET wordsAt(m) ==
        IF m[1] = 0 THEN <<>> ELSE Words(Trim(SubSeq(t, m[1], m[1] + m[2] - 1)))
      split(words) ==
        IF Len(words) > 3
        THEN [x \in DOMAIN parts \cup {"city", "street"} |->
                IF x = "city"
                THEN DropTrailingComma(JoinWords(SubSeq(words, Len(words) - 1, Len(words))))
                ELSE IF x = "street"
                THEN DropTrailingComma(JoinWords(SubSeq(words, 1, Len(words) - 2)))
                ELSE parts[x]]
        ELSE IF Len(words) > 1
        THEN [x \in DOMAIN parts \cup {"city", "street"} |->
                IF x = "city" THEN DropTrailingComma(words[Len(words)])
                ELSE IF x = "street"
                THEN DropTrailingComma(JoinWords(SubSeq(words, 1, Len(words) - 1)))
                ELSE parts[x]]
        ELSE parts
  IN split(wordsAt(IF "state" \in DOMAIN parts
                   THEN CityPatternMatch(t, parts["state"]) ELSE <<0, 0>>))

\* extractAddressParts on character codes: the parts that are set, by name
AddressParts(fullAddress) ==
  LET \* Pattern 1 matched with a street group of length a, the state at s
      \* and a ZIP code of length z
      standard(clean, a, s, z) ==
        [x \in {"street", "city", "state", "zipCode"} |->
           CASE x = "street" -> Trim(SubSeq(clean, 1, a))
             [] x = "city" -> Trim(CityGroup(SubSeq(clean, a + 1, s - 1)))
             [] x = "state" -> SubSeq(clean, s, s + 1)
             [] OTHER -> SubSeq(clean, Len(clean) - z + 1, Len(clean))]
      \* Pattern 2: the ZIP code of length z at the end, if any
      withZip(clean, z) ==
        IF z > 0 THEN [x \in {"zipCode"} |-> SubSeq(clean, Len(clean) - z + 1, Len(clean))]
        ELSE <<>>
      \* Pattern 3: the state at position p3, if any
      withState(clean, found, p3) ==
        IF p3 > 0
        THEN [x \in DOMAIN found \cup {"state"} |->
                IF x = "state" THEN SubSeq(clean, p3, p3 + 1) ELSE found[x]]
        ELSE found
      \* if (!addressParts.street && !addressParts.city): the street is what
      \* remains of the address
      withRemaining(clean, found) ==
        IF /\ ~("street" \in DOMAIN found /\ found["street"] # <<>>)
           /\ ~("city" \in DOMAIN found /\ found["city"] # <<>>)
        THEN [x \in DOMAIN found \cup {"street"} |->
                IF x = "street" THEN RemainingStreet(clean, found) ELSE found[x]]
        ELSE found
      byPatterns(clean) ==
        withRemaining(clean,
          WithCityHeuristic(clean,
            withState(clean, withZip(clean, ZipLength(clean)), StatePatternStart(clean))))
      decompose(clean, a) ==
        IF a > 0 THEN standard(clean, a, StateStart(clean), ZipLength(clean))
        ELSE byPatterns(clean)
      cleaned(clean) == decompose(clean, StandardStreetLength(clean))
  IN cleaned(CollapseSpaces(Trim(fullAddress)))

\* extractAddressParts: the object it returns; the body never reads ocrText
extractAddressParts(fullAddress, ocrText) ==
  LET asStrings(parts) == [x \in DOMAIN parts |-> Str(FromCodes(parts[x]))]
  IN asStrings(AddressParts(Codes(fullAddress)))

----------------------------------------------------------------------------
(* The address decomposer over bounded addresses, run again on its street *)

\* what precedes the city in an address
AddressStreets ==
  { "123 Main St", "PO Box 12345", "742 Evergreen Terrace", "1 Elm St Apt 4",
    "Rural Route NW 54321", "9 Oak Ave Unit 30301-0042", " 12  Main\nSt", "" }

\* what follows the street
AddressEndings ==
  { ", Springfield, IL 62704", " Springfield IL 62704", ", IL 62704", " 62704", "",
    ", Troy, NY 12180-1234" }

Addresses == { street \o ending : street \in AddressStreets, ending \in AddressEndings }

\* the wider transcript handed to the decomposer
AddressTranscripts == { "", "Employee address\nState: TX\n15 State TX 123" }

InitAddress ==
  /\ apc = "start"
  /\ aAddress \in Addresses
  /\ aOcrText \in AddressTranscripts
  /\ aParts = EmptyObject
  /\ aStreetParts = EmptyObject
  /\ ClassifierOff
  /\ MiscOff
  /\ ExtractOff
  /\ ConcurrentOff
  /\ TaxLineOff
  /\ CascadeOff
  /\ Box3Off
  /\ PartyOff
  /\ SaveOff

\* extractAddressParts(fullAddress)
DecomposeAddress ==
  /\ apc = "start"
  /\ aParts' = extractAddressParts(aAddress, aOcrText)
  /\ apc' = "parsed"
  /\ UNCHANGED <<aAddress, aOcrText, aStreetParts>>
  /\ UNCHANGED aRest

\* extractAddressParts(street) for the street just produced
DecomposeStreet ==
  /\ apc = "parsed"
  /\ Get(aParts, "street").k = "string"
  /\ aStreetParts' = extractAddressParts(aParts["street"].v, "")
  /\ apc' = "reparsed"
  /\ UNCHANGED <<aAddress, aOcrText, aParts>>
  /\ UNCHANGED aRest

NextAddress == DecomposeAddress \/ DecomposeStreet

SpecAddress == InitAddress /\ [][NextAddress]_vars

----------------------------------------------------------------------------
(* 1099-MISC: what the pattern cascades find in an OCR text *)

\* An OCR document is its printed lines together with what the regular
\* expressions of the service find in them:
\*   info1099        result of extract1099InfoFromOCR
\*   infoW2          what the W-2 patterns of extractPersonalInfoFromOCR find
\*   accountNumber   capture of the first matching account number pattern
\*   box3            result of extractBox3OtherIncomeWithFallback (0: none)
\*   amounts         per 1099-MISC field, the first accepted cascade match
\*   medicalPayments the amounts pushed by the Box 6 scans, in order
\*   wages           result of extractWagesFromOCR (0: none)
\*   w2Amounts, intAmounts, divAmounts, necAmounts
\*                   per field, the first accepted match of the W-2, 1099-INT,
\*                   1099-DIV and 1099-NEC patterns
\*   dollarAmounts   the positive amounts that follow a dollar sign, in order
EmptyContent ==
  [lines |-> <<>>, info1099 |-> EmptyObject, infoW2 |-> EmptyObject,
   accountNumber |-> EmptyObject, box3 |-> 0, amounts |-> EmptyObject,
   medicalPayments |-> <<>>, wages |-> 0, w2Amounts |-> EmptyObject,
   intAmounts |-> EmptyObject, divAmounts |-> EmptyObject, necAmounts |-> EmptyObject,
   dollarAmounts |-> <<>>]

\* /form\s+1099|1099-/i.test(ocrText)
Is1099Form(text) ==
  LET at(low, i, word) ==
        i + Len(word) - 1 <= Len(low) /\ SubSeq(low, i, i + Len(word) - 1) = word
      matches(low, form, number) ==
        \/ Includes(low, Codes("1099-"))
        \/ \E i \in 1..Len(low) :
             /\ at(low, i, form)
             /\ \E j \in (i + Len(form) + 1)..Len(low) :
                  /\ \A k \in (i + Len(form))..(j - 1) : low[k] \in WhiteSpace
                  /\ at(low, j, number)
  IN matches(ToLowerCase(text), Codes("form"), Codes("1099"))

\* the truthy entries of obj among the given keys
TruthyEntries(obj, keys) ==
  [x \in {y \in DOMAIN obj \cap keys : Truthy(obj[y])} |-> obj[x]]

extractPersonalInfoFromOCR(ocrText) ==
  IF Is1099Form(JoinLines(ocrText.lines))
  THEN TruthyEntries(ocrText.info1099,
                     {"name", "tin", "address", "payerName", "payerTIN", "payerAddress"})
  ELSE TruthyEntries(ocrText.infoW2,
                     {"name", "ssn", "address", "employerName", "employerAddress"})

personalInfoTo1099 ==
  << <<"name", "recipientName">>, <<"tin", "recipientTIN">>,
     <<"address", "recipientAddress">>, <<"payerName", "payerName">>,
     <<"payerTIN", "payerTIN">>, <<"payerAddress", "payerAddress">> >>

RECURSIVE CopyTruthy(_, _, _, _)
\* if (from[a]) data[b] = from[a], for the first n pairs <<a, b>>
CopyTruthy(obj, from, pairs, n) ==
  IF n = 0 THEN obj
  ELSE LET d == CopyTruthy(obj, from, pairs, n - 1)
           val == Get(from, pairs[n][1])
       IN IF Truthy(val) THEN Put(d, pairs[n][2], val) ELSE d

\* the Box 6 tail of extract1099MiscFieldsFromOCR
MedicalPaymentsStep(obj, medicalPayments) ==
  IF Len(medicalPayments) > 1
  THEN Put(Put(obj, "medicalPaymentsMultiple", Arr(medicalPayments)),
           "medicalHealthPayments", Num(medicalPayments[1]))
  ELSE IF Len(medicalPayments) = 1 /\ ~Truthy(Get(obj, "medicalHealthPayments"))
  THEN Put(obj, "medicalHealthPayments", Num(medicalPayments[1]))
  ELSE obj

extract1099MiscFieldsFromOCR(ocrText, baseData) ==
  LET d1 == CopyTruthy(baseData, extractPersonalInfoFromOCR(ocrText), personalInfoTo1099,
                       Len(personalInfoTo1099))
      d2 == Spread(d1, ocrText.accountNumber)
      d3 == IF ocrText.box3 > 0 THEN Put(d2, "otherIncome", Num(ocrText.box3)) ELSE d2
      d4 == Spread(d3, ocrText.amounts)
  IN MedicalPaymentsStep(d4, ocrText.medicalPayments)

----------------------------------------------------------------------------
(* 1099-MISC: structured pass *)

fieldMappings ==
  << <<"Payer.Name", "payerName">>, <<"Payer.TIN", "payerTIN">>,
     <<"Payer.Address", "payerAddress">>, <<"Recipient.Name", "recipientName">>,
     <<"Recipient.TIN", "recipientTIN">>, <<"Recipient.Address", "recipientAddress">>,
     <<"AccountNumber", "accountNumber">>,
     <<"Rents", "rents">>, <<"Royalties", "royalties">>,
     <<"OtherIncome", "otherIncome">>,
     <<"FederalIncomeTaxWithheld", "federalTaxWithheld">>,
     <<"FishingBoatProceeds", "fishingBoatProceeds">>,
     <<"MedicalAndHealthCarePayments", "medicalHealthPayments">>,
     <<"NonemployeeCompensation", "nonemployeeCompensation">>,
     <<"SubstitutePayments", "substitutePayments">>,
     <<"CropInsuranceProceeds", "cropInsuranceProceeds">>,
     <<"GrossProceedsPaidToAttorney", "grossProceedsAttorney">>,
     <<"FishPurchasedForResale", "fishPurchases">>,
     <<"Section409ADeferrals", "section409ADeferrals">>,
     <<"ExcessGoldenParachutePayments", "excessGoldenParachutePayments">>,
     <<"NonqualifiedDeferredCompensation", "nonqualifiedDeferredCompensation">>,
     <<"Section409AIncome", "section409AIncome">>,
     <<"StateTaxWithheld", "stateTaxWithheld">>,
     <<"StatePayerNumber", "statePayerNumber">>,
     <<"StateIncome", "stateIncome">>,
     <<"Box1", "rents">>, <<"Box2", "royalties">>, <<"Box3", "otherIncome">>,
     <<"Box4", "federalTaxWithheld">>, <<"Box5", "fishingBoatProceeds">>,
     <<"Box6", "medicalHealthPayments">>, <<"Box7", "nonemployeeCompensation">>,
     <<"Box8", "substitutePayments">>, <<"Box9", "cropInsuranceProceeds">>,
     <<"Box10", "grossProceedsAttorney">>, <<"Box11", "fishPurchases">>,
     <<"Box12", "section409ADeferrals">>,
     <<"Box13", "excessGoldenParachutePayments">>,
     <<"Box14", "nonqualifiedDeferredCompensation">>,
     <<"Box15a", "section409AIncome">>, <<"Box16", "stateTaxWithheld">>,
     <<"Box17", "statePayerNumber">>, <<"Box18", "stateIncome">> >>

\* String(value).trim() for the values the vendor sends: strings without
\* outer white space, and numbers, which are written in decimal
StringTrim(val) == IF val.k = "string" THEN val ELSE Str(ToString(val.v))

RECURSIVE MapMiscFields(_, _, _)
\* the mapping loop of process1099MiscFields over the first n mappings
MapMiscFields(obj, vendorFields, n) ==
  IF n = 0 THEN obj
  ELSE LET d == MapMiscFields(obj, vendorFields, n - 1)
           azureFieldName == fieldMappings[n][1]
           mappedFieldName == fieldMappings[n][2]
       IN IF azureFieldName \notin DOMAIN vendorFields THEN d
          ELSE LET value == vendorFields[azureFieldName]
               IN IF mappedFieldName \in {"statePayerNumber", "accountNumber"}
                  THEN Put(d, mappedFieldName, StringTrim(value))
                  ELSE Put(d, mappedFieldName,
                           IF value.k = "number" THEN value ELSE Num(parseAmount(value)))

RECURSIVE CopyIfMissing(_, _, _, _)
\* if (!data[b] && from[a]) data[b] = from[a], for the first n pairs <<a, b>>
CopyIfMissing(obj, from, pairs, n) ==
  IF n = 0 THEN obj
  ELSE LET d == CopyIfMissing(obj, from, pairs, n - 1)
           val == Get(from, pairs[n][1])
       IN IF ~Truthy(Get(d, pairs[n][2])) /\ Truthy(val) THEN Put(d, pairs[n][2], val) ELSE d

\* OCR fallback for personal info of process1099MiscFields
MiscPersonalFallback(obj, baseData) ==
  IF /\ \E f \in {"recipientName", "recipientTIN", "recipientAddress", "payerName", "payerTIN"} :
          ~Truthy(Get(obj, f))
     /\ Truthy(Get(baseData, "fullText"))
  THEN CopyIfMissing(obj, extractPersonalInfoFromOCR(baseData["fullText"].v),
                     personalInfoTo1099, Len(personalInfoTo1099))
  ELSE obj

expectedFields ==
  << "rents", "royalties", "otherIncome", "federalTaxWithheld", "fishingBoatProceeds",
     "medicalHealthPayments", "substitutePayments", "cropInsuranceProceeds",
     "grossProceedsAttorney", "fishPurchases", "section409ADeferrals",
     "excessGoldenParachutePayments", "nonqualifiedDeferredCompensation",
     "section409AIncome", "stateTaxWithheld", "stateIncome" >>

\* !data[field] || data[field] === 0
IsMissing(obj, field) ==
  ~Truthy(Get(obj, field)) \/ Get(obj, field) = Num(0)

\* a pass without the OCR fallback for missing box amounts
MiscGapFill_Skipped(obj, baseData) == obj

\* OCR fallback for missing box amounts of process1099MiscFields
MiscGapFill(obj, baseData) ==
  IF ~Truthy(Get(baseData, "fullText")) THEN obj
  ELSE LET missingFields == {i \in 1..Len(expectedFields) : IsMissing(obj, expectedFields[i])}
           ocrFields == extract1099MiscFieldsFromOCR(baseData["fullText"].v, EmptyObject)
           recovered == {expectedFields[i] : i \in
                           {j \in missingFields :
                              /\ Truthy(Get(ocrFields, expectedFields[j]))
                              /\ Get(ocrFields, expectedFields[j]) # Num(0)}}
       IN [f \in DOMAIN obj \cup recovered |->
             IF f \in recovered THEN ocrFields[f] ELSE obj[f]]

----------------------------------------------------------------------------
(* 1099-MISC: cross-source reconciler *)

criticalFields ==
  << "otherIncome", "fishingBoatProceeds", "medicalHealthPayments",
     "rents", "royalties", "federalTaxWithheld" >>

\* this.parseAmount(data[field]) || 0
AmountOf(obj, field) == parseAmount(Get(obj, field))

\* the main loop that takes the OCR reading whenever the two sources differ
CorrectCriticalFields_AlwaysOCR(corrected, structured, ocr, n) ==
  [f \in DOMAIN corrected \cup
         {criticalFields[j] : j \in {i \in 1..n :
             AmountOf(structured, criticalFields[i]) # AmountOf(ocr, criticalFields[i])}}
     |-> IF \E i \in 1..n : /\ criticalFields[i] = f
                            /\ AmountOf(structured, f) # AmountOf(ocr, f)
         THEN Num(AmountOf(ocr, f))
         ELSE corrected[f]]

\* the main loop that never corrects
CorrectCriticalFields_KeepStructured(corrected, structured, ocr, n) == corrected

RECURSIVE CorrectCriticalFields(_, _, _, _)
\* the loop over the first n critical fields of validateAndCorrect1099MiscFields
CorrectCriticalFields(corrected, structured, ocr, n) ==
  IF n = 0 THEN corrected
  ELSE LET c == CorrectCriticalFields(corrected, structured, ocr, n - 1)
           field == criticalFields[n]
           structuredValue == AmountOf(structured, field)
           ocrValue == AmountOf(ocr, field)
       IN IF Abs(structuredValue - ocrValue) > 100
          THEN Put(c, field, Num(ocrValue))
          ELSE IF (structuredValue = 0 \/ ~Truthy(Get(structured, field))) /\ ocrValue > 0
          THEN Put(c, field, Num(ocrValue))
          ELSE c

\* Pattern 1: Other Income value mapped to Fishing Boat Proceeds
FishingToOtherIncome(corrected, structured, ocr) ==
  IF Truthy(Get(structured, "fishingBoatProceeds")) /\ ~Truthy(Get(structured, "otherIncome"))
  THEN LET fishingValue == AmountOf(structured, "fishingBoatProceeds")
           ocrOtherIncome == AmountOf(ocr, "otherIncome")
           ocrFishingProceeds == AmountOf(ocr, "fishingBoatProceeds")
       IN IF /\ fishingValue > 0 /\ ocrOtherIncome > 0 /\ ocrFishingProceeds = 0
             /\ Abs(fishingValue - ocrOtherIncome) < 100
          THEN Put(Put(corrected, "otherIncome", Num(fishingValue)),
                   "fishingBoatProceeds", Num(0))
          ELSE corrected
  ELSE corrected

\* Pattern 2 with source and target confused: the target is cleared
MedicalToOtherField_ZeroesTarget(corrected, structured, ocr) ==
  IF AmountOf(structured, "medicalHealthPayments") > 0
     /\ AmountOf(ocr, "medicalHealthPayments") = 0
  THEN IF Abs(AmountOf(structured, "medicalHealthPayments") - AmountOf(ocr, "otherIncome")) < 100
       THEN Put(corrected, "otherIncome", Num(0))
       ELSE IF Abs(AmountOf(structured, "medicalHealthPayments")
                   - AmountOf(ocr, "fishingBoatProceeds")) < 100
       THEN Put(corrected, "fishingBoatProceeds", Num(0))
       ELSE corrected
  ELSE corrected

\* Pattern 2 that adds the moved amount to what OCR read for the target
MedicalToOtherField_AddsToTarget(corrected, structured, ocr) ==
  IF AmountOf(structured, "medicalHealthPayments") > 0
     /\ AmountOf(ocr, "medicalHealthPayments") = 0
  THEN IF Abs(AmountOf(structured, "medicalHealthPayments") - AmountOf(ocr, "otherIncome")) < 100
       THEN Put(Put(corrected, "otherIncome",
                    Num(AmountOf(ocr, "otherIncome")
                        + AmountOf(structured, "medicalHealthPayments"))),
                "medicalHealthPayments", Num(0))
       ELSE IF Abs(AmountOf(structured, "medicalHealthPayments")
                   - AmountOf(ocr, "fishingBoatProceeds")) < 100
       THEN Put(Put(corrected, "fishingBoatProceeds",
                    Num(AmountOf(ocr, "fishingBoatProceeds")
                        + AmountOf(structured, "medicalHealthPayments"))),
                "medicalHealthPayments", Num(0))
       ELSE corrected
  ELSE corrected

\* Pattern 2: medical payments mapped to other fields
MedicalToOtherField(corrected, structured, ocr) ==
  IF Truthy(Get(structured, "medicalHealthPayments"))
  THEN LET medicalValue == AmountOf(structured, "medicalHealthPayments")
           ocrMedicalValue == AmountOf(ocr, "medicalHealthPayments")
           ocrOtherIncome == AmountOf(ocr, "otherIncome")
           ocrFishingProceeds == AmountOf(ocr, "fishingBoatProceeds")
       IN IF medicalValue > 0 /\ ocrMedicalValue = 0
          THEN IF Abs(medicalValue - ocrOtherIncome) < 100
               THEN Put(Put(corrected, "otherIncome", Num(medicalValue)),
                        "medicalHealthPayments", Num(0))
               ELSE IF Abs(medicalValue - ocrFishingProceeds) < 100
               THEN Put(Put(corrected, "fishingBoatProceeds", Num(medicalValue)),
                        "medicalHealthPayments", Num(0))
               ELSE corrected
          ELSE corrected
  ELSE corrected

\* validateAndCorrect1099MiscFields, given the OCR extraction it starts with
CorrectedData(structured, ocr) ==
  LET c1 == CorrectCriticalFields(structured, structured, ocr, Len(criticalFields))
      c2 == FishingToOtherIncome(c1, structured, ocr)
  IN MedicalToOtherField(c2, structured, ocr)

validateAndCorrect1099MiscFields(structured, ocrText) ==
  CorrectedData(structured,
                extract1099MiscFieldsFromOCR(ocrText, [fullText |-> FullText(ocrText)]))

process1099MiscFields(vendorFields, baseData) ==
  LET d1 == MapMiscFields(baseData, vendorFields, Len(fieldMappings))
      d2 == MiscPersonalFallback(d1, baseData)
      d3 == MiscGapFill(d2, baseData)
  IN IF Truthy(Get(baseData, "fullText"))
     THEN validateAndCorrect1099MiscFields(d3, baseData["fullText"].v)
     ELSE d3

----------------------------------------------------------------------------
(* The other subtype passes *)

RECURSIVE MapAmountFields_NumbersOnly(_, _, _, _)
\* a mapping loop that maps the numbers and skips every other value
MapAmountFields_NumbersOnly(obj, vendorFields, mappings, n) ==
  IF n = 0 THEN obj
  ELSE LET d == MapAmountFields_NumbersOnly(obj, vendorFields, mappings, n - 1)
           azureFieldName == mappings[n][1]
       IN IF azureFieldName \in DOMAIN vendorFields
             /\ vendorFields[azureFieldName].k = "number"
          THEN Put(d, mappings[n][2], vendorFields[azureFieldName])
          ELSE d

RECURSIVE MapAmountFields(_, _, _, _)
\* a mapping loop whose values all go through parseAmount unless numbers
MapAmountFields(obj, vendorFields, mappings, n) ==
  IF n = 0 THEN obj
  ELSE LET d == MapAmountFields(obj, vendorFields, mappings, n - 1)
           azureFieldName == mappings[n][1]
       IN IF azureFieldName \notin DOMAIN vendorFields THEN d
          ELSE LET value == vendorFields[azureFieldName]
               IN Put(d, mappings[n][2],
                      IF value.k = "number" THEN value ELSE Num(parseAmount(value)))

w2FieldMappings ==
  << <<"Employee.Name", "employeeName">>, <<"Employee.SSN", "employeeSSN">>,
     <<"Employee.Address", "employeeAddress">>, <<"Employer.Name", "employerName">>,
     <<"Employer.EIN", "employerEIN">>, <<"Employer.Address", "employerAddress">>,
     <<"WagesAndTips", "wages">>, <<"FederalIncomeTaxWithheld", "federalTaxWithheld">>,
     <<"SocialSecurityWages", "socialSecurityWages">>,
     <<"SocialSecurityTaxWithheld", "socialSecurityTaxWithheld">>,
     <<"MedicareWagesAndTips", "medicareWages">>,
     <<"MedicareTaxWithheld", "medicareTaxWithheld">>,
     <<"SocialSecurityTips", "socialSecurityTips">>, <<"AllocatedTips", "allocatedTips">>,
     <<"StateWagesTipsEtc", "stateWages">>, <<"StateIncomeTax", "stateTaxWithheld">>,
     <<"LocalWagesTipsEtc", "localWages">>, <<"LocalIncomeTax", "localTaxWithheld">> >>

nameFields == << "Employee.Name", "EmployeeName", "Employee_Name", "RecipientName" >>
ssnFields == << "Employee.SSN", "EmployeeSSN", "Employee_SSN", "RecipientTIN" >>
addressFields == << "Employee.Address", "EmployeeAddress", "Employee_Address", "RecipientAddress" >>

\* if (!obj[target]) take the value of the first of the names that is truthy
FirstTruthyField(obj, target, vendorFields, names) ==
  LET hits == {i \in 1..Len(names) : Truthy(Get(vendorFields, names[i]))}
  IN IF ~Truthy(Get(obj, target)) /\ hits # {}
     THEN Put(obj, target, vendorFields[names[CHOOSE i \in hits : \A j \in hits : i <= j]])
     ELSE obj

personalInfoToW2 ==
  << <<"name", "employeeName">>, <<"ssn", "employeeSSN">>, <<"address", "employeeAddress">>,
     <<"employerName", "employerName">>, <<"employerAddress", "employerAddress">> >>

\* the address sub-fields of processW2Fields
WithAddressParts(baseData, w2Data) ==
  LET withParts(addressParts) ==
        Put(Put(Put(Put(w2Data,
          "employeeAddressStreet", Get(addressParts, "street")),
          "employeeCity", Get(addressParts, "city")),
          "employeeState", Get(addressParts, "state")),
          "employeeZipCode", Get(addressParts, "zipCode"))
      \* typeof baseData.fullText === 'string' ? baseData.fullText : ''
      ocrText(fullText) == IF fullText.k = "text" THEN fullText.v ELSE ""
      parsed(employeeAddress) ==
        IF Truthy(employeeAddress) /\ employeeAddress.k = "string"
        THEN withParts(extractAddressParts(employeeAddress.v, ocrText(Get(baseData, "fullText"))))
        ELSE w2Data
  IN parsed(Get(w2Data, "employeeAddress"))

processW2Fields(vendorFields, baseData) ==
  LET \* the OCR fallback for personal info
      personalFallback(w2Data) ==
        IF /\ \E f \in {"employeeName", "employeeSSN", "employeeAddress",
                        "employerName", "employerAddress"} : ~Truthy(Get(w2Data, f))
           /\ Truthy(Get(baseData, "fullText"))
        THEN CopyIfMissing(w2Data, extractPersonalInfoFromOCR(baseData["fullText"].v),
                           personalInfoToW2, Len(personalInfoToW2))
        ELSE w2Data
      \* the OCR fallback for Box 1 wages
      wagesFallback(w2Data) ==
        IF /\ ~Truthy(Get(w2Data, "wages"))
           /\ Truthy(Get(baseData, "fullText"))
           /\ baseData["fullText"].v.wages > 0
        THEN Put(w2Data, "wages", Num(baseData["fullText"].v.wages))
        ELSE w2Data
  IN wagesFallback(
       WithAddressParts(
         baseData, personalFallback(
           FirstTruthyField(
             FirstTruthyField(
               FirstTruthyField(
                 MapAmountFields(baseData, vendorFields, w2FieldMappings,
                                 Len(w2FieldMappings)),
                 "employeeName", vendorFields, nameFields),
               "employeeSSN", vendorFields, ssnFields),
             "employeeAddress", vendorFields, addressFields))))

personalInfoTo1099Short ==
  << <<"name", "recipientName">>, <<"tin", "recipientTIN">>,
     <<"address", "recipientAddress">>, <<"payerName", "payerName">>,
     <<"payerTIN", "payerTIN">> >>

\* the OCR fallback for personal info shared by the INT, DIV and NEC passes
PersonalFallback1099(obj, baseData) ==
  IF /\ \E f \in {"recipientName", "recipientTIN", "recipientAddress", "payerName", "payerTIN"} :
          ~Truthy(Get(obj, f))
     /\ Truthy(Get(baseData, "fullText"))
  THEN CopyIfMissing(obj, extractPersonalInfoFromOCR(baseData["fullText"].v),
                     personalInfoTo1099Short, Len(personalInfoTo1099Short))
  ELSE obj

partyMappings ==
  << <<"Payer.Name", "payerName">>, <<"Payer.TIN", "payerTIN">>,
     <<"Payer.Address", "payerAddress">>, <<"Recipient.Name", "recipientName">>,
     <<"Recipient.TIN", "recipientTIN">>, <<"Recipient.Address", "recipientAddress">> >>

intFieldMappings ==
  partyMappings \o
  << <<"InterestIncome", "interestIncome">>,
     <<"EarlyWithdrawalPenalty", "earlyWithdrawalPenalty">>,
     <<"InterestOnUSTreasuryObligations", "interestOnUSavingsBonds">>,
     <<"FederalIncomeTaxWithheld", "federalTaxWithheld">>,
     <<"InvestmentExpenses", "investmentExpenses">>,
     <<"ForeignTaxPaid", "foreignTaxPaid">>, <<"TaxExemptInterest", "taxExemptInterest">> >>

divFieldMappings ==
  partyMappings \o
  << <<"OrdinaryDividends", "ordinaryDividends">>,
     <<"QualifiedDividends", "qualifiedDividends">>,
     <<"TotalCapitalGainDistributions", "totalCapitalGain">>,
     <<"NondividendDistributions", "nondividendDistributions">>,
     <<"FederalIncomeTaxWithheld", "federalTaxWithheld">>,
     <<"Section199ADividends", "section199ADividends">> >>

necFieldMappings ==
  partyMappings \o
  << <<"NonemployeeCompensation", "nonemployeeCompensation">>,
     <<"FederalIncomeTaxWithheld", "federalTaxWithheld">> >>

\* a 1099-INT pass that lets the amounts found in the text override the
\* vendor's
process1099IntFields_OcrWins(vendorFields, baseData) ==
  Spread(PersonalFallback1099(
           MapAmountFields(baseData, vendorFields, intFieldMappings, Len(intFieldMappings)),
           baseData),
         IF Truthy(Get(baseData, "fullText")) THEN baseData["fullText"].v.intAmounts
         ELSE EmptyObject)

process1099IntFields(vendorFields, baseData) ==
  PersonalFallback1099(
    MapAmountFields(baseData, vendorFields, intFieldMappings, Len(intFieldMappings)), baseData)

process1099DivFields(vendorFields, baseData) ==
  PersonalFallback1099(
    MapAmountFields(baseData, vendorFields, divFieldMappings, Len(divFieldMappings)), baseData)

process1099NecFields(vendorFields, baseData) ==
  PersonalFallback1099(
    MapAmountFields(baseData, vendorFields, necFieldMappings, Len(necFieldMappings)), baseData)

\* every vendor field that holds a string or a number, under the vendor's name
processGenericFields(vendorFields, baseData) ==
  Spread(baseData,
         [x \in {y \in DOMAIN vendorFields : vendorFields[y].k \in {"string", "number"}}
            |-> vendorFields[x]])

extractW2FieldsFromOCR(ocrText, baseData) ==
  LET d1 == CopyTruthy(baseData, extractPersonalInfoFromOCR(ocrText), personalInfoToW2,
                       Len(personalInfoToW2))
      d2 == IF ocrText.wages > 0 THEN Put(d1, "wages", Num(ocrText.wages)) ELSE d1
  IN Spread(d2, ocrText.w2Amounts)

extract1099IntFieldsFromOCR(ocrText, baseData) ==
  Spread(CopyTruthy(baseData, extractPersonalInfoFromOCR(ocrText), personalInfoTo1099Short,
                    Len(personalInfoTo1099Short)),
         ocrText.intAmounts)

extract1099DivFieldsFromOCR(ocrText, baseData) ==
  Spread(CopyTruthy(baseData, extractPersonalInfoFromOCR(ocrText), personalInfoTo1099Short,
                    Len(personalInfoTo1099Short)),
         ocrText.divAmounts)

extract1099NecFieldsFromOCR(ocrText, baseData) ==
  Spread(CopyTruthy(baseData, extractPersonalInfoFromOCR(ocrText), personalInfoTo1099Short,
                    Len(personalInfoTo1099Short)),
         ocrText.necAmounts)

extractGenericFieldsFromOCR(ocrText, baseData) ==
  IF Len(ocrText.dollarAmounts) > 0
  THEN Put(baseData, "extractedAmounts", Arr(ocrText.dollarAmounts))
  ELSE baseData

----------------------------------------------------------------------------
(* Dispatch on the document type *)

\* a switch without the 1099 cases: they fall to the default
getModelIdForDocumentType_No1099Model(type) ==
  IF type = "W2" THEN "prebuilt-tax.us.w2" ELSE "prebuilt-document"

getModelIdForDocumentType(type) ==
  CASE type = "W2" -> "prebuilt-tax.us.w2"
    [] type \in {"FORM_1099_INT", "FORM_1099_DIV", "FORM_1099_MISC", "FORM_1099_NEC"} ->
         "prebuilt-tax.us.1099"
    [] OTHER -> "prebuilt-document"

extractTaxDocumentFieldsFromOCR(response, type) ==
  LET extracted == [fullText |-> FullText(response.content)]
      ocrText == response.content
  IN CASE type = "W2" -> extractW2FieldsFromOCR(ocrText, extracted)
       [] type = "FORM_1099_INT" -> extract1099IntFieldsFromOCR(ocrText, extracted)
       [] type = "FORM_1099_DIV" -> extract1099DivFieldsFromOCR(ocrText, extracted)
       [] type = "FORM_1099_MISC" -> extract1099MiscFieldsFromOCR(ocrText, extracted)
       [] type = "FORM_1099_NEC" -> extract1099NecFieldsFromOCR(ocrText, extracted)
       [] OTHER -> extractGenericFieldsFromOCR(ocrText, extracted)

RECURSIVE CopyKeyValuePairs(_, _, _)
\* extractedData[key] = value for the first n key-value pairs
CopyKeyValuePairs(obj, pairs, n) ==
  IF n = 0 THEN obj
  ELSE Put(CopyKeyValuePairs(obj, pairs, n - 1), pairs[n][1], Str(pairs[n][2]))

extractTaxDocumentFields(response, type) ==
  LET extracted == [fullText |-> FullText(response.content)]
  IN IF response.hasFields
     THEN CASE type = "W2" -> processW2Fields(response.fields, extracted)
            [] type = "FORM_1099_INT" -> process1099IntFields(response.fields, extracted)
            [] type = "FORM_1099_DIV" -> process1099DivFields(response.fields, extracted)
            [] type = "FORM_1099_MISC" -> process1099MiscFields(response.fields, extracted)
            [] type = "FORM_1099_NEC" -> process1099NecFields(response.fields, extracted)
            [] OTHER -> processGenericFields(response.fields, extracted)
     ELSE CopyKeyValuePairs(extracted, response.keyValuePairs, Len(response.keyValuePairs))

----------------------------------------------------------------------------
(* 1099-MISC structured pass over bounded documents *)

\* an object with the given keys, each holding the number chosen for it
NumObject(keys, choice) == [x \in keys |-> Num(choice[x])]

\* the objects that give some of the keys a number from vals
NumObjects(keys, vals) ==
  UNION { { NumObject(present, choice) : choice \in [present -> vals] }
          : present \in SUBSET keys }

MiscLines == << "Form 1099-MISC", "3 Other income" >>

ContentWith(box3, amounts, medicalPayments) ==
  [EmptyContent EXCEPT !.lines = MiscLines, !.box3 = box3, !.amounts = amounts,
                       !.medicalPayments = medicalPayments]

\* Box 3, 5 and 6 from both sources, in every combination
RelocationDocuments ==
  { <<vendorFields, ContentWith(box3, amounts, <<>>)>> :
      vendorFields \in NumObjects({"OtherIncome", "FishingBoatProceeds",
                                   "MedicalAndHealthCarePayments"}, {0, 40, 100, 141}),
      box3 \in {0, 40, 100, 141, 50000},
      amounts \in NumObjects({"fishingBoatProceeds", "medicalHealthPayments"}, {0, 40, 141}) }

\* Box 1, 2 and 4 from both sources, beside a Box 6 amount that OCR may miss
FrameDocuments ==
  { <<Spread(vendorFields, medical), ContentWith(0, amounts, <<>>)>> :
      vendorFields \in NumObjects({"Rents", "Royalties", "FederalIncomeTaxWithheld"},
                                  {0, 40, 100, 141}),
      medical \in NumObjects({"Box6"}, {40}),
      amounts \in NumObjects({"rents", "royalties", "federalTaxWithheld"}, {0, 40, 141}) }

\* text values, alternative vendor names and the Box 6 scans
TextDocuments ==
  { <<Spread(Spread(names, boxes), numbers),
      [ContentWith(box3, amounts, medicalPayments) EXCEPT !.info1099 = personal,
                                                          !.accountNumber = account]>> :
      names \in { EmptyObject,
                  [x \in {"Payer.Name", "Recipient.Name"} |-> Str("Acme Holdings")] },
      boxes \in { EmptyObject,
                  [x \in {"OtherIncome"} |-> Str("$1,250")],
                  [x \in {"OtherIncome", "Box3"} |-> IF x = "Box3" THEN Num(40) ELSE Num(141)],
                  [x \in {"StateIncome"} |-> Num(141)] },
      numbers \in { EmptyObject,
                    [x \in {"StatePayerNumber", "AccountNumber"} |->
                       IF x = "AccountNumber" THEN Str("A-17") ELSE Num(4417)] },
      box3 \in {0, 1250},
      amounts \in { EmptyObject,
                    [x \in {"medicalHealthPayments", "stateIncome", "statePayerNumber"} |->
                       IF x = "statePayerNumber" THEN Str("4417") ELSE Num(40)] },
      medicalPayments \in { <<>>, <<141>>, <<141, 40>> },
      personal \in { EmptyObject,
                     [x \in {"name", "payerName", "payerTIN"} |->
                        IF x = "payerTIN" THEN Str("12-3456789") ELSE Str("Pat Doe")] },
      account \in { EmptyObject, [x \in {"accountNumber"} |-> Str("B-21")] } }

\* a response without text: nothing can be found in it
TextlessDocuments ==
  { <<vendorFields, EmptyContent>> :
      vendorFields \in NumObjects({"OtherIncome", "MedicalAndHealthCarePayments", "Rents"},
                                  {0, 40, 141}) }

MiscDocuments ==
  RelocationDocuments \cup FrameDocuments \cup TextDocuments \cup TextlessDocuments

InitMisc ==
  /\ mpc = "start"
  /\ \E doc \in MiscDocuments : fields = doc[1] /\ content = doc[2]
  /\ data = EmptyObject
  /\ mapped = EmptyObject
  /\ structuredData = EmptyObject
  /\ ocrData = EmptyObject
  /\ result = EmptyObject
  /\ ClassifierOff
  /\ ExtractOff
  /\ ConcurrentOff
  /\ AddressOff
  /\ TaxLineOff
  /\ CascadeOff
  /\ Box3Off
  /\ PartyOff
  /\ SaveOff

\* const data = { ...baseData }
BaseData == [fullText |-> FullText(content)]

\* process1099MiscFields: the mapping loop
MapFieldsStep ==
  /\ mpc = "start"
  /\ data' = MapMiscFields(BaseData, fields, Len(fieldMappings))
  /\ mapped' = data'
  /\ mpc' = "mapped"
  /\ UNCHANGED <<fields, content, structuredData, ocrData, result>>
  /\ UNCHANGED mRest

\* process1099MiscFields: OCR fallback for personal info
PersonalFallbackStep ==
  /\ mpc = "mapped"
  /\ data' = MiscPersonalFallback(data, BaseData)
  /\ mpc' = "personal"
  /\ UNCHANGED <<fields, content, mapped, structuredData, ocrData, result>>
  /\ UNCHANGED mRest

\* process1099MiscFields: OCR fallback for missing box amounts
GapFillStep ==
  /\ mpc = "personal"
  /\ data' = MiscGapFill(data, BaseData)
  /\ mpc' = "filled"
  /\ UNCHANGED <<fields, content, mapped, structuredData, ocrData, result>>
  /\ UNCHANGED mRest

\* process1099MiscFields: validation against OCR when there is a text
ValidateAndCorrectStep ==
  /\ mpc = "filled"
  /\ Truthy(BaseData["fullText"])
  /\ structuredData' = data
  /\ ocrData' = extract1099MiscFieldsFromOCR(content, [fullText |-> FullText(content)])
  /\ result' = CorrectedData(data, ocrData')
  /\ mpc' = "validated"
  /\ UNCHANGED <<fields, content, data, mapped>>
  /\ UNCHANGED mRest

\* process1099MiscFields: return data when there is no text
ReturnDataStep ==
  /\ mpc = "filled"
  /\ ~Truthy(BaseData["fullText"])
  /\ result' = data
  /\ mpc' = "returned"
  /\ UNCHANGED <<fields, content, data, mapped, structuredData, ocrData>>
  /\ UNCHANGED mRest

NextMisc ==
  \/ MapFieldsStep
  \/ PersonalFallbackStep
  \/ GapFillStep
  \/ ValidateAndCorrectStep
  \/ ReturnDataStep

SpecMisc == InitMisc /\ [][NextMisc]_vars

----------------------------------------------------------------------------
(* extractDataFromDocument over bounded documents and vendor behaviours *)

\* Object.values(DocumentType): the enumeration generated from the Prisma
\* schema; the five subtypes the service dispatches on
DocumentTypeValues ==
  {"W2", "FORM_1099_INT", "FORM_1099_DIV", "FORM_1099_MISC", "FORM_1099_NEC"}

\* the document types a caller can claim
ClaimedTypes == DocumentTypeValues \cup {"OTHER_TAX_DOCUMENT"}

NoError == [message |-> "", code |-> ""]

\* failures of a call to the vendor
VendorErrors ==
  { [message |-> "ModelNotFound", code |-> "InvalidRequest"],
    [message |-> "Resource not found", code |-> "404"],
    [message |-> "The model is missing", code |-> "NotFound"],
    [message |-> "Request timed out", code |-> "ETIMEDOUT"],
    [message |-> "Access denied", code |-> "401"] }

\* a catch block that takes every failure for a model availability issue
IsModelNotFound_Always(err) == TRUE

\* a catch block that looks at the message only
IsModelNotFound_MessageOnly(err) ==
  \/ Includes(Codes(err.message), Codes("ModelNotFound"))
  \/ Includes(Codes(err.message), Codes("Resource not found"))

\* the test of the inner catch block for a model availability issue
IsModelNotFound(err) ==
  \/ Includes(Codes(err.message), Codes("ModelNotFound"))
  \/ Includes(Codes(err.message), Codes("Resource not found"))
  \/ err.code = "NotFound"

DocumentTexts ==
  { <<>>,
    <<"Acme Holdings">>,
    <<"Form W-2 Wage and Tax Statement", "1 Wages, tips, other compensation 52000">>,
    <<"Form 1099-DIV", "1a Total ordinary dividends 141">>,
    <<"Form 1099-INT", "1 Interest income 40">>,
    <<"Form 1099-MISC", "3 Other income 1250">>,
    <<"Form 1099-NEC", "1 Nonemployee compensation 100">>,
    <<"Form W-2 Wage and Tax Statement", "Form 1099-DIV">> }

\* what the patterns find in a text of DocumentTexts
ContentOf(lines) ==
  IF lines = <<>> THEN EmptyContent
  ELSE [EmptyContent EXCEPT
          !.lines = lines,
          !.info1099 = [x \in {"name", "payerName"} |->
                          IF x = "name" THEN Str("Pat Doe") ELSE Str("Acme Holdings")],
          !.infoW2 = [x \in {"name", "address"} |->
                        IF x = "name" THEN Str("Pat Doe") ELSE Str("9 Elm St, Troy, NY 12180")],
          !.box3 = IF Len(lines) > 1 THEN 1250 ELSE 0,
          !.amounts = IF Len(lines) > 1 THEN [x \in {"rents"} |-> Num(99)] ELSE EmptyObject,
          !.wages = IF Len(lines) > 1 THEN 52000 ELSE 0,
          !.w2Amounts = IF Len(lines) > 1 THEN [x \in {"federalTaxWithheld"} |-> Num(0)]
                        ELSE EmptyObject,
          !.intAmounts = IF Len(lines) > 1 THEN [x \in {"interestIncome"} |-> Num(40)]
                         ELSE EmptyObject,
          !.divAmounts = IF Len(lines) > 1 THEN [x \in {"ordinaryDividends"} |-> Num(141)]
                         ELSE EmptyObject,
          !.necAmounts = IF Len(lines) > 1 THEN [x \in {"nonemployeeCompensation"} |-> Num(100)]
                         ELSE EmptyObject,
          !.dollarAmounts = IF Len(lines) > 1 THEN <<141>> ELSE <<>>]

W2VendorFields(address) ==
  [x \in {"Employee.Name", "Employee.Address", "WagesAndTips", "FederalIncomeTaxWithheld"} |->
     CASE x = "Employee.Name" -> Str("Pat Doe")
       [] x = "Employee.Address" -> Str(address)
       [] x = "WagesAndTips" -> Num(52000)
       [] OTHER -> Num(141)]

VendorAddresses ==
  { "123 Main St, Springfield, IL 62704", "PO Box 12", "CA 90210" }

Form1099VendorFields ==
  [x \in {"Payer.Name", "OrdinaryDividends", "InterestIncome", "NonemployeeCompensation",
          "OtherIncome", "MedicalAndHealthCarePayments", "FederalIncomeTaxWithheld"} |->
     CASE x = "Payer.Name" -> Str("Acme Holdings")
       [] x = "OrdinaryDividends" -> Num(141)
       [] x = "InterestIncome" -> Num(40)
       [] x = "NonemployeeCompensation" -> Num(100)
       [] x = "OtherIncome" -> Num(1250)
       [] x = "MedicalAndHealthCarePayments" -> Num(40)
       [] OTHER -> Num(0)]

\* vendor fields whose amounts are written as text or carry a sign, with a
\* field of no mapping table and a field that is not a primitive
SignedVendorFields ==
  [x \in {"WagesAndTips", "FederalIncomeTaxWithheld", "InterestIncome", "OrdinaryDividends",
          "NonemployeeCompensation", "Rents", "Notes", "Void", "Items"} |->
     CASE x = "WagesAndTips" -> Str("$51,000")
       [] x = "FederalIncomeTaxWithheld" -> Num(-141)
       [] x = "InterestIncome" -> Str("-40")
       [] x = "OrdinaryDividends" -> Str("n/a")
       [] x = "NonemployeeCompensation" -> Str("$1,250")
       [] x = "Rents" -> Num(99)
       [] x = "Notes" -> Str("see attached")
       [] x = "Void" -> [k |-> "boolean", v |-> TRUE]
       [] OTHER -> Arr(<<1, 2>>)]

\* the analysis results the vendor can return for a document
VendorResponses ==
  { [content |-> ContentOf(lines), hasFields |-> TRUE, fields |-> vendorFields,
     keyValuePairs |-> <<>>] :
      lines \in DocumentTexts,
      vendorFields \in {W2VendorFields(a) : a \in VendorAddresses}
                       \cup {Form1099VendorFields, SignedVendorFields, EmptyObject} }
  \cup
  { [content |-> ContentOf(lines), hasFields |-> FALSE, fields |-> EmptyObject,
     keyValuePairs |-> << <<"Total", "141">> >>] : lines \in DocumentTexts }

\* what prebuilt-read returns for the same document: its text only
ReadResponse(response) ==
  [content |-> response.content, hasFields |-> FALSE, fields |-> EmptyObject,
   keyValuePairs |-> <<>>]

Succeeds == [ok |-> TRUE, error |-> NoError]
FailsWith(err) == [ok |-> FALSE, error |-> err]

\* how the vendor behaves during one call of extractDataFromDocument
VendorBehaviours ==
  { [response |-> r, primary |-> Succeeds, fallback |-> Succeeds] : r \in VendorResponses }
  \cup
  { [response |-> r, primary |-> FailsWith(e), fallback |-> f] :
      r \in VendorResponses, e \in VendorErrors,
      f \in {Succeeds, FailsWith([message |-> "Request timed out", code |-> "ETIMEDOUT"])} }

InitExtract ==
  /\ opc = "start"
  /\ documentType \in ClaimedTypes
  /\ vendor \in VendorBehaviours
  /\ documentPathOrBuffer \in {"buffer", "path", "missing path"}
  /\ documentPathOrBuffer # "buffer" =>
       vendor.response.fields = Form1099VendorFields /\ Len(vendor.response.content.lines) = 2
  /\ calls = <<>>
  /\ modelError = NoError
  /\ error = NoError
  /\ apiResult = ReadResponse([content |-> EmptyContent])
  /\ usedPath = "none"
  /\ extractedData = EmptyObject
  /\ detectedType = "none"
  /\ correctedDocumentType = Undefined
  /\ returned = EmptyObject
  /\ thrown = ""
  /\ ClassifierOff
  /\ MiscOff
  /\ ConcurrentOff
  /\ AddressOff
  /\ TaxLineOff
  /\ CascadeOff
  /\ Box3Off
  /\ PartyOff
  /\ SaveOff

\* readFile(documentPathOrBuffer) rejects
ReadFileFails ==
  /\ opc = "start"
  /\ documentPathOrBuffer = "missing path"
  /\ error' = [message |-> "ENOENT: no such file or directory", code |-> "ENOENT"]
  /\ opc' = "failed"
  /\ UNCHANGED <<documentType, vendor, documentPathOrBuffer, calls, modelError, apiResult,
                 usedPath, extractedData, detectedType, correctedDocumentType, returned, thrown>>
  /\ UNCHANGED oRest

\* the document buffer is at hand
GetDocumentBuffer ==
  /\ opc = "start"
  /\ documentPathOrBuffer # "missing path"
  /\ opc' = "ready"
  /\ UNCHANGED <<documentType, vendor, documentPathOrBuffer, calls, modelError, error,
                 apiResult, usedPath, extractedData, detectedType, correctedDocumentType,
                 returned, thrown>>
  /\ UNCHANGED oRest

\* beginAnalyzeDocument(modelId) and pollUntilDone resolve
PrimarySucceeds ==
  /\ opc = "ready"
  /\ vendor.primary.ok
  /\ calls' = Append(calls, [modelId |-> getModelIdForDocumentType(documentType), ok |-> TRUE])
  /\ apiResult' = vendor.response
  /\ opc' = "analyzed"
  /\ UNCHANGED <<documentType, vendor, documentPathOrBuffer, modelError, error, usedPath,
                 extractedData, detectedType, correctedDocumentType, returned, thrown>>
  /\ UNCHANGED oRest

\* a service that issues the primary call a second time before it gives up
PrimaryFails_Retried ==
  /\ opc = "ready"
  /\ ~vendor.primary.ok
  /\ calls' = calls \o << [modelId |-> getModelIdForDocumentType(documentType), ok |-> FALSE],
                          [modelId |-> getModelIdForDocumentType(documentType), ok |-> FALSE] >>
  /\ modelError' = vendor.primary.error
  /\ opc' = "caught"
  /\ UNCHANGED <<documentType, vendor, documentPathOrBuffer, error, apiResult, usedPath,
                 extractedData, detectedType, correctedDocumentType, returned, thrown>>
  /\ UNCHANGED oRest

\* beginAnalyzeDocument(modelId) or pollUntilDone rejects: catch (modelError)
PrimaryFails ==
  /\ opc = "ready"
  /\ ~vendor.primary.ok
  /\ calls' = Append(calls, [modelId |-> getModelIdForDocumentType(documentType), ok |-> FALSE])
  /\ modelError' = vendor.primary.error
  /\ opc' = "caught"
  /\ UNCHANGED <<documentType, vendor, documentPathOrBuffer, error, apiResult, usedPath,
                 extractedData, detectedType, correctedDocumentType, returned, thrown>>
  /\ UNCHANGED oRest

\* a first pass that removes from the response the fields it has mapped
ExtractStructured_ConsumesFields ==
  /\ opc = "analyzed"
  /\ extractedData' = extractTaxDocumentFields(apiResult, documentType)
  /\ apiResult' = [apiResult EXCEPT !.fields = EmptyObject]
  /\ usedPath' = "structured"
  /\ opc' = "extracted"
  /\ UNCHANGED <<documentType, vendor, documentPathOrBuffer, calls, modelError, error,
                 detectedType, correctedDocumentType, returned, thrown>>
  /\ UNCHANGED oRest

\* extractedData = this.extractTaxDocumentFields(result, documentType)
ExtractStructured ==
  /\ opc = "analyzed"
  /\ extractedData' = extractTaxDocumentFields(apiResult, documentType)
  /\ usedPath' = "structured"
  /\ opc' = "extracted"
  /\ UNCHANGED <<documentType, vendor, documentPathOrBuffer, calls, modelError, error,
                 apiResult, detectedType, correctedDocumentType, returned, thrown>>
  /\ UNCHANGED oRest

\* the type the text is classified as; UNKNOWN stands for a skipped
\* classification as well
OcrBasedType(extracted) ==
  IF Truthy(Get(extracted, "fullText"))
  THEN AnalyzeDocumentTypeFromOCR(JoinLines(extracted["fullText"].v.lines))
  ELSE "UNKNOWN"

\* a service that never corrects the claimed type
IsCorrection_Never(type, claimed) == FALSE

\* ocrBasedType !== 'UNKNOWN' && ocrBasedType !== documentType, and the enum
\* holds it
IsCorrection(type, claimed) ==
  type # "UNKNOWN" /\ type # claimed /\ type \in DocumentTypeValues

\* OCR-based document type correction on the structured path
CorrectTypeStructured ==
  /\ opc = "extracted"
  /\ usedPath = "structured"
  /\ LET corrected(type) ==
           /\ detectedType' = type
           /\ IF IsCorrection(type, documentType)
              THEN /\ correctedDocumentType' = Str(type)
                   /\ extractedData' = extractTaxDocumentFields(apiResult, type)
              ELSE UNCHANGED <<correctedDocumentType, extractedData>>
     IN corrected(OcrBasedType(extractedData))
  /\ opc' = "corrected"
  /\ UNCHANGED <<documentType, vendor, documentPathOrBuffer, calls, modelError, error,
                 apiResult, usedPath, returned, thrown>>
  /\ UNCHANGED oRest

\* a model availability issue: fall back to prebuilt-read, which resolves
FallbackSucceeds ==
  /\ opc = "caught"
  /\ IsModelNotFound(modelError)
  /\ vendor.fallback.ok
  /\ calls' = Append(calls, [modelId |-> "prebuilt-read", ok |-> TRUE])
  /\ apiResult' = ReadResponse(vendor.response)
  /\ opc' = "fallback analyzed"
  /\ UNCHANGED <<documentType, vendor, documentPathOrBuffer, modelError, error, usedPath,
                 extractedData, detectedType, correctedDocumentType, returned, thrown>>
  /\ UNCHANGED oRest

\* a model availability issue: fall back to prebuilt-read, which rejects
FallbackFails ==
  /\ opc = "caught"
  /\ IsModelNotFound(modelError)
  /\ ~vendor.fallback.ok
  /\ calls' = Append(calls, [modelId |-> "prebuilt-read", ok |-> FALSE])
  /\ error' = vendor.fallback.error
  /\ opc' = "failed"
  /\ UNCHANGED <<documentType, vendor, documentPathOrBuffer, modelError, apiResult, usedPath,
                 extractedData, detectedType, correctedDocumentType, returned, thrown>>
  /\ UNCHANGED oRest

\* throw modelError: not a model availability issue
RethrowModelError ==
  /\ opc = "caught"
  /\ ~IsModelNotFound(modelError)
  /\ error' = modelError
  /\ opc' = "failed"
  /\ UNCHANGED <<documentType, vendor, documentPathOrBuffer, calls, modelError, apiResult,
                 usedPath, extractedData, detectedType, correctedDocumentType, returned, thrown>>
  /\ UNCHANGED oRest

\* extractedData = this.extractTaxDocumentFieldsFromOCR(fallbackResult, documentType)
ExtractFromOCR ==
  /\ opc = "fallback analyzed"
  /\ extractedData' = extractTaxDocumentFieldsFromOCR(apiResult, documentType)
  /\ usedPath' = "ocr"
  /\ opc' = "extracted"
  /\ UNCHANGED <<documentType, vendor, documentPathOrBuffer, calls, modelError, error,
                 apiResult, detectedType, correctedDocumentType, returned, thrown>>
  /\ UNCHANGED oRest

\* OCR-based document type correction on the OCR path
CorrectTypeOCR ==
  /\ opc = "extracted"
  /\ usedPath = "ocr"
  /\ LET corrected(type) ==
           /\ detectedType' = type
           /\ IF IsCorrection(type, documentType)
              THEN /\ correctedDocumentType' = Str(type)
                   /\ extractedData' = extractTaxDocumentFieldsFromOCR(apiResult, type)
              ELSE UNCHANGED <<correctedDocumentType, extractedData>>
     IN corrected(OcrBasedType(extractedData))
  /\ opc' = "corrected"
  /\ UNCHANGED <<documentType, vendor, documentPathOrBuffer, calls, modelError, error,
                 apiResult, usedPath, returned, thrown>>
  /\ UNCHANGED oRest

\* add the corrected document type and return extractedData
ReturnExtractedData ==
  /\ opc = "corrected"
  /\ returned' = IF Truthy(correctedDocumentType)
                 THEN Put(extractedData, "correctedDocumentType", correctedDocumentType)
                 ELSE extractedData
  /\ opc' = "returned"
  /\ UNCHANGED <<documentType, vendor, documentPathOrBuffer, calls, modelError, error,
                 apiResult, usedPath, extractedData, detectedType, correctedDocumentType,
                 thrown>>
  /\ UNCHANGED oRest

\* the outer catch: throw new Error(`... processing failed: ${error?.message}`)
ThrowProcessingFailed ==
  /\ opc = "failed"
  /\ thrown' = "Azure Document Intelligence processing failed: "
               \o (IF error.message = "" THEN "Unknown error" ELSE error.message)
  /\ opc' = "thrown"
  /\ UNCHANGED <<documentType, vendor, documentPathOrBuffer, calls, modelError, error,
                 apiResult, usedPath, extractedData, detectedType, correctedDocumentType,
                 returned>>
  /\ UNCHANGED oRest

NextExtract ==
  \/ ReadFileFails
  \/ GetDocumentBuffer
  \/ PrimarySucceeds
  \/ PrimaryFails
  \/ ExtractStructured
  \/ CorrectTypeStructured
  \/ FallbackSucceeds
  \/ FallbackFails
  \/ RethrowModelError
  \/ ExtractFromOCR
  \/ CorrectTypeOCR
  \/ ReturnExtractedData
  \/ ThrowProcessingFailed

SpecExtract == InitExtract /\ [][NextExtract]_vars

----------------------------------------------------------------------------
(* The structured passes, each stopped after its mapping loop *)

\* the vendor field maps the mapping loops are run on
MapperFields ==
  {W2VendorFields(a) : a \in VendorAddresses}
  \cup {Form1099VendorFields, SignedVendorFields}
  \cup {doc[1] : doc \in TextDocuments}

\* the table of a subtype's pass
MappingTable(type) ==
  CASE type = "W2" -> w2FieldMappings
    [] type = "FORM_1099_INT" -> intFieldMappings
    [] type = "FORM_1099_DIV" -> divFieldMappings
    [] type = "FORM_1099_MISC" -> fieldMappings
    [] type = "FORM_1099_NEC" -> necFieldMappings
    [] OTHER -> <<>>

\* the mapping loop of the pass of a type; processGenericFields is one loop
MappingLoop(type, vendorFields, baseData) ==
  CASE type = "FORM_1099_MISC" -> MapMiscFields(baseData, vendorFields, Len(fieldMappings))
    [] type \in DocumentTypeValues \ {"FORM_1099_MISC"} ->
         MapAmountFields(baseData, vendorFields, MappingTable(type), Len(MappingTable(type)))
    [] OTHER -> processGenericFields(vendorFields, baseData)

InitMap ==
  /\ mpc = "start"
  /\ documentType \in ClaimedTypes
  /\ fields \in MapperFields
  /\ content \in {EmptyContent, ContentOf(<<"Form 1099-MISC", "3 Other income 1250">>)}
  /\ data = EmptyObject
  /\ mapped = EmptyObject
  /\ structuredData = EmptyObject
  /\ ocrData = EmptyObject
  /\ result = EmptyObject
  /\ opc = "off"
  /\ documentPathOrBuffer = ""
  /\ vendor = <<>>
  /\ calls = <<>>
  /\ modelError = <<>>
  /\ error = <<>>
  /\ apiResult = <<>>
  /\ usedPath = "none"
  /\ extractedData = <<>>
  /\ detectedType = "none"
  /\ correctedDocumentType = <<>>
  /\ returned = <<>>
  /\ thrown = ""
  /\ ClassifierOff
  /\ ConcurrentOff
  /\ AddressOff
  /\ TaxLineOff
  /\ CascadeOff
  /\ Box3Off
  /\ PartyOff
  /\ SaveOff

\* the pass up to the end of its mapping loop
MappingLoopStep ==
  /\ mpc = "start"
  /\ mapped' = MappingLoop(documentType, fields, BaseData)
  /\ data' = mapped'
  /\ mpc' = "mapped"
  /\ UNCHANGED <<fields, content, structuredData, ocrData, result>>
  /\ UNCHANGED mRest

\* the rest of the pass: fallbacks, reconciliation and return
ReturnPassStep ==
  /\ mpc = "mapped"
  /\ result' = extractTaxDocumentFields(
                 [content |-> content, hasFields |-> TRUE, fields |-> fields,
                  keyValuePairs |-> <<>>], documentType)
  /\ mpc' = "returned"
  /\ UNCHANGED <<fields, content, data, mapped, structuredData, ocrData>>
  /\ UNCHANGED mRest

NextMap == MappingLoopStep \/ ReturnPassStep

SpecMap == InitMap /\ [][NextMap]_vars

----------------------------------------------------------------------------
(* The structured passes on vendor fields that name the parties *)

\* vendor field maps whose names, tax IDs and addresses are strings
PartyVendorFields ==
  { [x \in {"Employee.Name", "Employer.Name", "Employer.EIN", "Employer.Address",
            "Payer.Name", "Payer.TIN", "Payer.Address",
            "Recipient.Name", "Recipient.TIN", "Recipient.Address"} |->
       CASE x \in {"Employee.Name", "Recipient.Name"} -> Str("Pat Doe")
         [] x \in {"Employer.Name", "Payer.Name"} -> Str(name)
         [] x \in {"Employer.EIN", "Payer.TIN", "Recipient.TIN"} -> Str(id)
         [] OTHER -> Str(address)] :
      name \in {"Acme Holdings", "3M Company"},
      id \in {"12-3456789", "XX-XXX6789"},
      address \in {"500 Market St, Troy, NY 12180", "PO Box 12"} }

PartyContents ==
  { EmptyContent, ContentOf(<<"Wage and Tax Statement">>),
    ContentOf(<<"Form 1099-MISC", "3 Other income 1250">>) }

InitPartyMap ==
  /\ mpc = "start"
  /\ documentType \in ClaimedTypes
  /\ fields \in PartyVendorFields
  /\ content \in PartyContents
  /\ data = EmptyObject
  /\ mapped = EmptyObject
  /\ structuredData = EmptyObject
  /\ ocrData = EmptyObject
  /\ result = EmptyObject
  /\ opc = "off"
  /\ documentPathOrBuffer = ""
  /\ vendor = <<>>
  /\ calls = <<>>
  /\ modelError = <<>>
  /\ error = <<>>
  /\ apiResult = <<>>
  /\ usedPath = "none"
  /\ extractedData = <<>>
  /\ detectedType = "none"
  /\ correctedDocumentType = <<>>
  /\ returned = <<>>
  /\ thrown = ""
  /\ ClassifierOff
  /\ ConcurrentOff
  /\ AddressOff
  /\ TaxLineOff
  /\ CascadeOff
  /\ Box3Off
  /\ PartyOff
  /\ SaveOff

SpecPartyMap == InitPartyMap /\ [][NextMap]_vars

----------------------------------------------------------------------------
(* Concurrent calls of extractDataFromDocument on one service instance *)

\* the calls in flight
CallIds == {"first", "second"}

\* what the vendor returns for the two documents of the concurrent calls
ConcurrentResponses ==
  { [content |-> ContentOf(<<"Form 1099-DIV", "1a Total ordinary dividends 141">>),
     hasFields |-> TRUE, fields |-> Form1099VendorFields, keyValuePairs |-> <<>>],
    [content |-> ContentOf(<<"Form W-2 Wage and Tax Statement",
                             "1 Wages, tips, other compensation 52000">>),
     hasFields |-> TRUE, fields |-> W2VendorFields("PO Box 12"), keyValuePairs |-> <<>>] }

TimedOut == FailsWith([message |-> "Request timed out", code |-> "ETIMEDOUT"])

\* what the callers pass and how the vendor answers each call
ConcurrentRequests ==
  { [documentType |-> type, documentPathOrBuffer |-> "buffer",
     vendor |-> [response |-> r, primary |-> outcome[1], fallback |-> outcome[2]]] :
      type \in {"W2", "FORM_1099_DIV", "OTHER_TAX_DOCUMENT"},
      r \in ConcurrentResponses,
      outcome \in { <<Succeeds, Succeeds>>,
                    <<FailsWith([message |-> "ModelNotFound", code |-> "InvalidRequest"]),
                      Succeeds>>,
                    <<FailsWith([message |-> "ModelNotFound", code |-> "InvalidRequest"]),
                      TimedOut>>,
                    <<TimedOut, Succeeds>> } }
  \cup
  { [documentType |-> "W2", documentPathOrBuffer |-> "missing path",
     vendor |-> [response |-> ReadResponse([content |-> EmptyContent]),
                 primary |-> Succeeds, fallback |-> Succeeds]] }

\* the locals of a call that has just been entered
StartRun(request) ==
  [pc |-> "start",
   documentType |-> request.documentType,
   documentPathOrBuffer |-> request.documentPathOrBuffer,
   calls |-> <<>>,
   modelError |-> NoError,
   returned |-> EmptyObject,
   thrown |-> ""]

\* the outer catch: the call rejects
Rejected(run, err) ==
  [run EXCEPT !.pc = "thrown",
              !.thrown = "Azure Document Intelligence processing failed: "
                         \o (IF err.message = "" THEN "Unknown error" ELSE err.message)]

\* the extraction under a type: structured says which of the two is used
Pass(response, type, structured) ==
  IF structured THEN extractTaxDocumentFields(response, type)
  ELSE extractTaxDocumentFieldsFromOCR(response, type)

\* OCR-based correction of the type: the re-extraction with the corrected type
\* added, or the first extraction
Reclassified(first, type, claimed, response, structured) ==
  IF IsCorrection(type, claimed)
  THEN Put(Pass(response, type, structured), "correctedDocumentType", Str(type))
  ELSE first

\* extraction, OCR-based correction of the type and return, which run without
\* an await in between
Resolved(run, response, structured) ==
  LET classified(first) ==
        Reclassified(first, OcrBasedType(first), run.documentType, response, structured)
  IN [run EXCEPT !.pc = "returned",
                 !.returned = classified(Pass(response, run.documentType, structured))]

\* a call runs from the await it is suspended at to its next await or to its end
Advance(run, behaviour) ==
  LET called(modelId, ok) == [run EXCEPT !.calls = Append(run.calls, [modelId |-> modelId, ok |-> ok])]
  IN CASE run.pc = "start" ->
            IF run.documentPathOrBuffer = "missing path"
            THEN Rejected(run, [message |-> "ENOENT: no such file or directory",
                                code |-> "ENOENT"])
            ELSE [run EXCEPT !.pc = "ready"]
       [] run.pc = "ready" ->
            IF behaviour.primary.ok
            THEN Resolved(called(getModelIdForDocumentType(run.documentType), TRUE),
                          behaviour.response, TRUE)
            ELSE IF IsModelNotFound(behaviour.primary.error)
            THEN [called(getModelIdForDocumentType(run.documentType), FALSE)
                    EXCEPT !.pc = "caught", !.modelError = behaviour.primary.error]
            ELSE Rejected([called(getModelIdForDocumentType(run.documentType), FALSE)
                             EXCEPT !.modelError = behaviour.primary.error],
                          behaviour.primary.error)
       [] run.pc = "caught" ->
            IF behaviour.fallback.ok
            THEN Resolved(called("prebuilt-read", TRUE), ReadResponse(behaviour.response),
                          FALSE)
            ELSE Rejected(called("prebuilt-read", FALSE), behaviour.fallback.error)
       [] OTHER -> run

Settled(run) == run.pc \in {"returned", "thrown"}

InitConcurrent ==
  /\ requests \in [CallIds -> ConcurrentRequests]
  /\ runs = [c \in CallIds |-> StartRun(requests[c])]
  /\ schedule = <<>>
  /\ verdicts = <<>>
  /\ ClassifierOff
  /\ MiscOff
  /\ ExtractOff
  /\ AddressOff
  /\ TaxLineOff
  /\ CascadeOff
  /\ Box3Off
  /\ PartyOff
  /\ SaveOff

\* a service that keeps the claimed document type in a field of the instance:
\* a call that is entered overwrites it for the calls in flight
Resume_SharedDocumentType(c) ==
  /\ ~Settled(runs[c])
  /\ runs' = [d \in CallIds |->
                IF d = c THEN Advance(runs[c], requests[c].vendor)
                ELSE IF runs[c].pc = "start"
                THEN [runs[d] EXCEPT !.documentType = runs[c].documentType]
                ELSE runs[d]]
  /\ schedule' = Append(schedule, c)
  /\ UNCHANGED requests
  /\ UNCHANGED pRest

\* the event loop resumes call c, which touches its own locals only: the
\* instance holds config and client, which no method assigns after the
\* constructor
Resume(c) ==
  /\ ~Settled(runs[c])
  /\ runs' = [runs EXCEPT ![c] = Advance(runs[c], requests[c].vendor)]
  /\ schedule' = Append(schedule, c)
  /\ UNCHANGED requests
  /\ UNCHANGED pRest

NextConcurrent == \E c \in CallIds : Resume(c)

SpecConcurrent == InitConcurrent /\ [][NextConcurrent]_vars

----------------------------------------------------------------------------
(* The tax-line mapper, W2ToForm1040Mapper.mapW2ToForm1040, on the amount   *)
(* lines of the form.  An OCR text is here what each pattern of the         *)
(* mapper's extractWagesFromOCR captures in it, match by match.             *)

\* a || b || ... over the keys names of obj: the first truthy value, else the
\* value of the last key
FirstTruthyOf(obj, names) ==
  LET pick(hits) ==
        IF hits = {} THEN Get(obj, names[Len(names)]) ELSE Get(obj, names[Least(hits)])
  IN pick({i \in 1..Len(names) : Truthy(Get(obj, names[i]))})

\* the keys read for wagesValue and for federalTaxWithheldValue
wagesValueKeys ==
  << "wages", "WagesAndTips", "box1", "Box1", "Box 1", "wagesAndTips", "wages_and_tips" >>

federalTaxWithheldValueKeys ==
  << "federalTaxWithheld", "FederalIncomeTaxWithheld", "box2", "Box2", "Box 2",
     "federal_tax_withheld" >>

RECURSIVE W2MapperParseAmount(_)
\* W2ToForm1040Mapper.parseAmount: a number as it is, a string cleaned and
\* parsed with NaN read as 0, an object by its value or else its content
W2MapperParseAmount(val) ==
  LET parsed(float) == IF float.isNaN THEN 0 ELSE float.v
      inner(obj) ==
        IF Get(obj, "value").k # "undefined" THEN W2MapperParseAmount(obj["value"])
        ELSE IF Get(obj, "content").k # "undefined" THEN W2MapperParseAmount(obj["content"])
        ELSE 0
  IN CASE val.k = "number" -> val.v
       [] val.k = "string" ->
            parsed(ParseFloat(SelectSeq(Codes(val.v), LAMBDA c : c \notin AmountNoise)))
       [] val.k = "object" -> inner(val.v)
       [] OTHER -> 0

\* the patterns of wagePatterns whose source includes 'Box\\s*1' (no source
\* includes 'Wages.*tips.*comp')
boxOnePatterns == {3}

\* the score of an amount that pattern p captured
WageScore(p, amount) ==
  1 + (IF p \in boxOnePatterns THEN 3 ELSE 0)
    + (IF amount > 1000 /\ amount < 10000000 THEN 1 ELSE 0)

\* W2ToForm1040Mapper.extractWagesFromOCR: the amount of the first candidate
\* of the highest score, 0 if there is no candidate
W2MapperExtractWagesFromOCR(ocrText) ==
  LET amountAt(c) ==
        ParseFloat(SelectSeq(Codes(ocrText.wageCaptures[c[1]][c[2]]),
                             LAMBDA ch : ch \notin AmountNoise))
      valid(c) ==
        /\ ~amountAt(c).isNaN
        /\ amountAt(c).v > 0
        /\ amountAt(c).v < 100000000
      score(c) == WageScore(c[1], amountAt(c).v)
      before(a, b) == a[1] < b[1] \/ (a[1] = b[1] /\ a[2] <= b[2])
      best(candidates) ==
        IF candidates = {} THEN 0
        ELSE amountAt(CHOOSE c \in candidates : \A o \in candidates :
                        score(c) > score(o) \/ (score(c) = score(o) /\ before(c, o))).v
  IN best({c \in UNION {{<<p, i>> : i \in 1..Len(ocrText.wageCaptures[p])} :
                          p \in 1..Len(ocrText.wageCaptures)} : valid(c)})

\* form[line] || 0
LineOrZero(form, line) == IF Truthy(Get(form, line)) THEN form[line].v ELSE 0

\* form[line] = (form[line] || 0) + amount, if the amount is positive
AddToLine(form, line, amount) ==
  IF amount > 0 THEN Put(form, line, Num(LineOrZero(form, line) + amount)) ELSE form

\* mapW2ToForm1040 on the lines 1, 25a, 9, 11 and 32 of the form
mapW2ToForm1040(w2Data, existingForm1040) ==
  LET wagesOf(actual, parsed) ==
        IF parsed = 0 /\ Truthy(Get(actual, "fullText"))
        THEN W2MapperExtractWagesFromOCR(actual["fullText"].v)
        ELSE parsed
      totals(form) ==
        Put(Put(Put(form,
          "line9", Num(LineOrZero(form, "line1"))),
          "line11", Num(LineOrZero(form, "line1"))),
          "line32", Num(LineOrZero(form, "line25a")))
      amounts(actual) ==
        totals(
          AddToLine(
            AddToLine(existingForm1040, "line1",
                      wagesOf(actual, W2MapperParseAmount(FirstTruthyOf(actual, wagesValueKeys)))),
            "line25a", W2MapperParseAmount(FirstTruthyOf(actual, federalTaxWithheldValueKeys))))
  IN amounts(IF Get(w2Data, "extractedData").k = "object"
             THEN w2Data["extractedData"].v ELSE w2Data)

\* OCR texts: their lines, and the captures of the nine wage patterns in them
MapperTexts ==
  { [lines |-> <<"Employer Acme Holdings">>,
     wageCaptures |-> << <<>>, <<>>, <<>>, <<>>, <<>>, <<>>, <<>>, <<>>, <<>> >>],
    [lines |-> <<"Other compensation: 52000">>,
     wageCaptures |-> << <<>>, <<>>, <<>>, <<>>, <<>>, <<>>, <<>>, <<>>, <<"52000">> >>],
    [lines |-> <<"Box 1 480", "Total wages 52,000">>,
     wageCaptures |-> << <<>>, <<>>, <<"480">>, <<>>, <<>>, <<"52,000">>, <<>>, <<>>,
                         <<"52,000">> >>] }

\* what a resolved field map may hold for wages, for box 1 and for the tax
\* withheld
WagesValues ==
  { Undefined, Num(52000), Num(0), Num(-20), Str("$52,000"), Str("n/a"), Str("50k"),
    Obj([value |-> Num(7)]) }

BoxOneValues == { Undefined, Num(480) }

WithheldValues == { Undefined, Num(6100), Str("6,100"), Str("n/a"), Str("12 est.") }

\* an object with the given values under the given keys, undefined ones left out
ObjectOf(keys, values) ==
  [x \in {keys[i] : i \in {j \in 1..Len(keys) : values[j].k # "undefined"}} |->
     values[CHOOSE i \in 1..Len(keys) : keys[i] = x]]

ResolvedW2Maps ==
  { ObjectOf(<<"wages", "box1", "federalTaxWithheld", "fullText">>, <<w, b, f, t>>) :
      w \in WagesValues, b \in BoxOneValues, f \in WithheldValues,
      t \in {Undefined} \cup {FullText(text) : text \in MapperTexts} }

ExistingForms == { EmptyObject, [x \in {"line1", "line25a"} |-> Num(1000)] }

InitTaxLine ==
  /\ tpc = "start"
  /\ tW2Data \in ResolvedW2Maps \cup {[extractedData |-> Obj(w)] : w \in ResolvedW2Maps}
  /\ tExisting \in ExistingForms
  /\ tForm = EmptyObject
  /\ ClassifierOff
  /\ MiscOff
  /\ ExtractOff
  /\ ConcurrentOff
  /\ AddressOff
  /\ CascadeOff
  /\ Box3Off
  /\ PartyOff
  /\ SaveOff

\* W2ToForm1040Mapper.mapW2ToForm1040(w2Data, existingForm1040)
MapW2ToForm1040Step ==
  /\ tpc = "start"
  /\ tForm' = mapW2ToForm1040(tW2Data, tExisting)
  /\ tpc' = "mapped"
  /\ UNCHANGED <<tW2Data, tExisting>>
  /\ UNCHANGED tRest

NextTaxLine == MapW2ToForm1040Step

SpecTaxLine == InitTaxLine /\ [][NextTaxLine]_vars

----------------------------------------------------------------------------
(* Pattern cascades of the OCR extractors.  A transcript is here what each  *)
(* pattern of a field captures in it (match[1]), in the order of the        *)
(* field's pattern list, with "" where the pattern does not match.          *)

\* match[1].replace(/,/g, '')
WithoutCommas(capture) == SelectSeq(Codes(capture), LAMBDA c : c # Code[","])

RECURSIVE AmountCascade(_, _, _, _)
\* the inner loop of extract1099MiscFieldsFromOCR over the patterns of one
\* field, from pattern i on
AmountCascade(obj, fieldName, captures, i) ==
  LET numeric(amount) ==
        IF ~amount.isNaN /\ amount.v >= 0
        THEN Put(obj, fieldName, Num(amount.v))
        ELSE AmountCascade(obj, fieldName, captures, i + 1)
  IN IF i > Len(captures) THEN obj
     ELSE IF captures[i] = "" THEN AmountCascade(obj, fieldName, captures, i + 1)
     ELSE IF fieldName # "statePayerNumber" THEN numeric(ParseFloat(WithoutCommas(captures[i])))
     ELSE Put(obj, fieldName, Str(FromCodes(Trim(Codes(captures[i])))))

\* the fields of amountPatterns that are followed here, in the order of the
\* object's keys
cascadeFields == << "medicalHealthPayments", "nonemployeeCompensation", "statePayerNumber" >>

RECURSIVE AmountCascades(_, _, _)
\* the outer loop of extract1099MiscFieldsFromOCR over the fields, from field n on
AmountCascades(obj, captures, n) ==
  IF n > Len(cascadeFields) THEN obj
  ELSE AmountCascades(AmountCascade(obj, cascadeFields[n], captures[cascadeFields[n]], 1),
                      captures, n + 1)

RECURSIVE PositiveAmounts(_, _, _)
\* the amounts among the captures that are positive and not in seen yet,
\* appended to seen
PositiveAmounts(seen, captures, distinct) ==
  LET add(amount) ==
        IF ~amount.isNaN /\ amount.v > 0
           /\ ~(distinct /\ \E i \in 1..Len(seen) : seen[i] = amount.v)
        THEN Append(seen, amount.v) ELSE seen
  IN IF captures = <<>> THEN seen
     ELSE PositiveAmounts(add(ParseFloat(WithoutCommas(Head(captures)))), Tail(captures),
                          distinct)

\* the list medicalPayments: the captures of medicalPaymentPattern, then the
\* dollar amounts of the Box 6 context that are not in the list yet
MedicalPaymentsOf(medicalCaptures, contextCaptures) ==
  PositiveAmounts(PositiveAmounts(<<>>, medicalCaptures, FALSE), contextCaptures, TRUE)

\* the amount loops and the Box 6 tail of extract1099MiscFieldsFromOCR
ExtractMiscAmounts(transcript) ==
  MedicalPaymentsStep(AmountCascades(EmptyObject, transcript.captures, 1),
                      MedicalPaymentsOf(transcript.medicalCaptures,
                                        transcript.contextCaptures))

RECURSIVE WagesCascade(_, _)
\* extractWagesFromOCR: the first capture that is an amount above 0 and below
\* 100,000,000, from pattern i on; 0 if there is none
WagesCascade(captures, i) ==
  LET checked(amount) ==
        IF ~amount.isNaN /\ amount.v > 0 /\ amount.v < 100000000
        THEN amount.v ELSE WagesCascade(captures, i + 1)
  IN IF i > Len(captures) THEN 0
     ELSE IF captures[i] = "" THEN WagesCascade(captures, i + 1)
     ELSE checked(ParseFloat(WithoutCommas(captures[i])))

extractWagesFromOCR(transcript) == WagesCascade(transcript.wageCaptures, 1)

\* at most MaxMatches patterns of a field match in one transcript
MaxMatches == 2

\* what a pattern for amounts and one for the payer's state number may capture
AmountCaptures == { ",", "0", "40", "1,250" }

TextCaptures == { " ", "TX-77 ", "9" }

\* the captures of n patterns of which at most MaxMatches match
CaptureTuples(n, values) ==
  { c \in [1..n -> values \cup {""}] : Cardinality({i \in 1..n : c[i] # ""}) <= MaxMatches }

NoCaptures(n) == [i \in 1..n |-> ""]

\* 1099-MISC transcripts in which the patterns of one followed field match
MiscCaptures ==
  { [medicalHealthPayments |-> c, nonemployeeCompensation |-> NoCaptures(6),
     statePayerNumber |-> NoCaptures(5)] : c \in CaptureTuples(6, AmountCaptures) }
  \cup { [medicalHealthPayments |-> NoCaptures(6), nonemployeeCompensation |-> c,
          statePayerNumber |-> NoCaptures(5)] : c \in CaptureTuples(6, AmountCaptures) }
  \cup { [medicalHealthPayments |-> NoCaptures(6), nonemployeeCompensation |-> NoCaptures(6),
          statePayerNumber |-> c] : c \in CaptureTuples(5, TextCaptures) }

\* what medicalPaymentPattern and the dollar pattern of the Box 6 context capture
MedicalCaptures == { <<>>, <<"40">>, <<"25", "40">>, <<"40", "40">> }

ContextCaptures == { <<>>, <<"40">>, <<"700">> }

CascadeTranscripts ==
  { [kind |-> "1099-MISC", captures |-> c, medicalCaptures |-> m, contextCaptures |-> x] :
      c \in MiscCaptures, m \in MedicalCaptures, x \in ContextCaptures }
  \cup { [kind |-> "W2", wageCaptures |-> c] : c \in CaptureTuples(6, AmountCaptures) }

InitCascade ==
  /\ kpc = "start"
  /\ kTranscript \in CascadeTranscripts
  /\ kData = EmptyObject
  /\ ClassifierOff
  /\ MiscOff
  /\ ExtractOff
  /\ ConcurrentOff
  /\ AddressOff
  /\ TaxLineOff
  /\ Box3Off
  /\ PartyOff
  /\ SaveOff

\* extract1099MiscFieldsFromOCR, on the followed fields
ExtractMiscAmountsStep ==
  /\ kpc = "start"
  /\ kTranscript.kind = "1099-MISC"
  /\ kData' = ExtractMiscAmounts(kTranscript)
  /\ kpc' = "extracted"
  /\ UNCHANGED kTranscript
  /\ UNCHANGED kRest

\* extractWagesFromOCR
ExtractWagesStep ==
  /\ kpc = "start"
  /\ kTranscript.kind = "W2"
  /\ kData' = [wages |-> Num(extractWagesFromOCR(kTranscript))]
  /\ kpc' = "extracted"
  /\ UNCHANGED kTranscript
  /\ UNCHANGED kRest

NextCascade == ExtractMiscAmountsStep \/ ExtractWagesStep

SpecCascade == InitCascade /\ [][NextCascade]_vars

----------------------------------------------------------------------------
(* Box 3 of the 1099-MISC: extractBox3OtherIncomeWithFallback on the        *)
(* characters of the transcript.  Amounts are whole dollars: of a capture   *)
(* [0-9,]+\.?\d{0,2} the digits before the point are its amount.            *)

\* the first position from i on that holds no white space
SkipSpaces(t, i) ==
  Least({j \in i..(Len(t) + 1) : j > Len(t) \/ t[j] \notin WhiteSpace})

\* the word, in any case, is at position i of t
WordAt(t, i, word) ==
  /\ i >= 1
  /\ i + Len(word) - 1 <= Len(t)
  /\ ToLowerCase(SubSeq(t, i, i + Len(word) - 1)) = ToLowerCase(Codes(word))

OneOfAt(t, i, words) == \E w \in words : WordAt(t, i, w)

\* /\bX(\d)/g -> 'Y$1'
FixLeading(t, from, to) ==
  [i \in 1..Len(t) |->
     IF /\ t[i] = Code[from]
        /\ i < Len(t) /\ IsDigit(t[i + 1])
        /\ (i = 1 \/ ~IsWordChar(t[i - 1]))
     THEN Code[to] ELSE t[i]]

\* /(\d)X\b/g -> '$1Y'
FixTrailing(t, from, to) ==
  [i \in 1..Len(t) |->
     IF /\ t[i] = Code[from]
        /\ i > 1 /\ IsDigit(t[i - 1])
        /\ (i = Len(t) \/ ~IsWordChar(t[i + 1]))
     THEN Code[to] ELSE t[i]]

\* /word/gi -> 'to', a word of the same length
FixWord(t, word, to) ==
  LET start(i) == Least({a \in (i - Len(word) + 1)..i : WordAt(t, a, word)})
  IN [i \in 1..Len(t) |-> IF start(i) = 0 THEN t[i] ELSE Codes(to)[i - start(i) + 1]]

\* t without the dropped positions
Without(t, dropped) ==
  LET kept == SelectSeq([i \in 1..Len(t) |-> <<i, t[i]>>], LAMBDA p : p[1] \notin dropped)
  IN [i \in 1..Len(kept) |-> kept[i][2]]

\* the white space run around position i: the position before it and the
\* position after it
RunStart(t, i) == Greatest({j \in 0..i : j = 0 \/ t[j] \notin WhiteSpace})
RunEnd(t, i) == SkipSpaces(t, i)

\* /\$\s+(\d)/g -> '$$$1'
FixDollarSpace(t) ==
  LET drop(i) ==
        /\ t[i] \in WhiteSpace
        /\ RunStart(t, i) >= 1 /\ t[RunStart(t, i)] = Code["$"]
        /\ RunEnd(t, i) <= Len(t) /\ IsDigit(t[RunEnd(t, i)])
  IN Without(t, {i \in 1..Len(t) : drop(i)})

\* /(\d)\s+,\s*(\d)/g -> '$1,$2'
FixSpacedComma(t) ==
  LET comma(c) ==
        /\ c >= 1 /\ c <= Len(t) /\ t[c] = Code[","]
        /\ c > 1 /\ t[c - 1] \in WhiteSpace
        /\ RunStart(t, c - 1) >= 1 /\ IsDigit(t[RunStart(t, c - 1)])
        /\ SkipSpaces(t, c + 1) <= Len(t) /\ IsDigit(t[SkipSpaces(t, c + 1)])
      drop(i) ==
        /\ t[i] \in WhiteSpace
        /\ comma(RunEnd(t, i)) \/ comma(RunStart(t, i))
  IN Without(t, {i \in 1..Len(t) : drop(i)})

\* /,\s+(\d)/g -> ',$1'
FixCommaSpace(t) ==
  LET drop(i) ==
        /\ t[i] \in WhiteSpace
        /\ RunStart(t, i) >= 1 /\ t[RunStart(t, i)] = Code[","]
        /\ RunEnd(t, i) <= Len(t) /\ IsDigit(t[RunEnd(t, i)])
  IN Without(t, {i \in 1..Len(t) : drop(i)})

\* normalizeOCRText: the replacements of charReplacements, one after another
normalizeOCRText(t) ==
  FixCommaSpace(FixSpacedComma(FixDollarSpace(
    FixWord(FixWord(FixWord(FixWord(FixWord(
      FixTrailing(FixLeading(FixTrailing(FixLeading(FixTrailing(FixLeading(FixTrailing(
        FixLeading(t, "S", "5"), "S", "5"), "O", "0"), "O", "0"), "l", "1"), "l", "1"),
        "I", "1"), "I", "1"),
      "0ther", "Other"), "lncome", "Income"), "lnc0me", "Income"), "B0x", "Box"),
      "80x", "Box"))))

OtherWords == {"Other", "0ther"}
IncomeWords == {"income", "lncome", "lnc0me"}
BoxWords == {"Box", "B0x", "80x"}

\* [0-9,]
IsAmountChar(c) == IsDigit(c) \/ c = Code[","]

\* the position after the capture [0-9,]+\.?\d{0,2} that starts at y
CaptureEnd(t, y) ==
  LET run == Least({j \in y..(Len(t) + 1) : j > Len(t) \/ ~IsAmountChar(t[j])})
      point(j) == IF j <= Len(t) /\ t[j] = Code["."] THEN j + 1 ELSE j
      cents(j) == Least({z \in j..(j + 2) : z = j + 2 \/ z > Len(t) \/ ~IsDigit(t[z])})
  IN cents(point(run))

\* parseFloat(capture.replace(/,/g, '')) of the capture that starts at y
CaptureAmount(t, y) ==
  ParseFloat(SelectSeq(SubSeq(t, y, CaptureEnd(t, y) - 1), LAMBDA c : c # Code[","]))

\* where the capture of \$?\s*([0-9,]+\.?\d{0,2}) starts when matched at x, 0
\* if it does not match there
AmountStart(t, x) ==
  LET from(y) == IF y <= Len(t) /\ IsAmountChar(t[y]) THEN y ELSE 0
  IN IF x <= Len(t) /\ t[x] = Code["$"] THEN from(SkipSpaces(t, x + 1))
     ELSE from(SkipSpaces(t, x))

\* position a holds the 3 of (?:^|\n)\s*3 : only white space lies between a
\* and the start of its line, or of an earlier line
IsBoxNumberAt(t, a, digit) ==
  /\ a >= 1 /\ a <= Len(t) /\ t[a] = Code[digit]
  /\ \/ RunStart(t, a - 1) = 0
     \/ \E j \in (RunStart(t, a - 1) + 1)..(a - 1) : t[j] = Code["\n"]

\* the position after 3\s+(?:Other|0ther)\s+(?:income|lncome|lnc0me) with the
\* 3 at a, 0 if the label is not there
LabelEnd(t, a) ==
  LET income(c, b) == IF c > b + 5 /\ OneOfAt(t, c, IncomeWords) THEN c + 6 ELSE 0
      other(b) ==
        IF b > a + 1 /\ OneOfAt(t, b, OtherWords) THEN income(SkipSpaces(t, b + 5), b) ELSE 0
  IN other(SkipSpaces(t, a + 1))

\* the labels of Box 3 at the start of a line: the positions of their 3
Box3Labels(t) == {a \in 1..Len(t) : IsBoxNumberAt(t, a, "3") /\ LabelEnd(t, a) # 0}

\* BOX3_STANDARD_NORMALIZED: where its capture starts, 0 if it does not match
StandardCapture(t) ==
  LET first(hits) == IF hits = {} THEN 0 ELSE AmountStart(t, SkipSpaces(t, LabelEnd(t, Least(hits))))
  IN first({a \in Box3Labels(t) : AmountStart(t, SkipSpaces(t, LabelEnd(t, a))) # 0})

\* the first position from i on that holds neither a colon nor white space
SkipColons(t, i) ==
  Least({j \in i..(Len(t) + 1) : j > Len(t) \/ (t[j] \notin WhiteSpace /\ t[j] # Code[":"])})

\* BOX3_LABEL_NORMALIZED matched at s: where its capture starts, 0 if it does
\* not match there
LabelCaptureAt(t, s) ==
  LET income(c, b) ==
        IF c > b + 5 /\ OneOfAt(t, c, IncomeWords)
        THEN AmountStart(t, SkipColons(t, c + 6)) ELSE 0
      other(b) == IF OneOfAt(t, b, OtherWords) THEN income(SkipSpaces(t, b + 5), b) ELSE 0
      three(a) == IF a <= Len(t) /\ t[a] = Code["3"] THEN other(SkipColons(t, a + 1)) ELSE 0
  IN IF OneOfAt(t, s, BoxWords) THEN three(SkipSpaces(t, s + 3)) ELSE 0

LabelCapture(t) ==
  LET first(hits) == IF hits = {} THEN 0 ELSE LabelCaptureAt(t, Least(hits))
  IN first({s \in 1..Len(t) : LabelCaptureAt(t, s) # 0})

\* BOX3_KEYWORD_NORMALIZED matched at s: where its capture starts, 0 if it
\* does not match there; .*? stays on the line of the keyword
KeywordCaptureAt(t, s) ==
  LET lineEnd(e) == Least({j \in e..(Len(t) + 1) : j > Len(t) \/ t[j] = Code["\n"]})
      lazy(e) == Least({j \in e..lineEnd(e) : AmountStart(t, j) # 0})
      capture(j) == IF j = 0 THEN 0 ELSE AmountStart(t, j)
      income(c, b) == IF c > b + 5 /\ OneOfAt(t, c, IncomeWords) THEN capture(lazy(c + 6)) ELSE 0
  IN IF OneOfAt(t, s, OtherWords) THEN income(SkipSpaces(t, s + 5), s) ELSE 0

KeywordCapture(t) ==
  LET first(hits) == IF hits = {} THEN 0 ELSE KeywordCaptureAt(t, Least(hits))
  IN first({s \in 1..Len(t) : KeywordCaptureAt(t, s) # 0})

\* the lookahead (?=(?:^|\n)\s*4\s+|$) with flag m holds at k
ContextEndsAt(t, k) ==
  LET four(x) == x < Len(t) /\ t[x] = Code["4"] /\ t[x + 1] \in WhiteSpace
  IN \/ k > Len(t)
     \/ t[k] = Code["\n"]
     \/ (k = 1 \/ t[k - 1] = Code["\n"]) /\ four(SkipSpaces(t, k))

\* contextMatch[0], from the 3 of the first Box 3 label on; the empty text if
\* there is no such label
Box3Context(t) ==
  LET upTo(a, k) == SubSeq(t, a, k - 1)
      from(a) ==
        IF a = 0 THEN <<>>
        ELSE upTo(a, Least({k \in LabelEnd(t, a)..(Len(t) + 1) : ContextEndsAt(t, k)}))
  IN from(Least(Box3Labels(t)))

RECURSIVE AmountsFrom(_, _, _)
\* the amounts above 0 that the pattern /\$?\s*([0-9,]+\.?\d{0,2})/g (with
\* dollar: /\$\s*([0-9,]+\.?\d{0,2})/g) captures in t from position i on
AmountsFrom(t, i, dollar) ==
  LET starts == {x \in i..Len(t) :
                   /\ AmountStart(t, x) # 0
                   /\ dollar => t[x] = Code["$"]}
      amount(y) == CaptureAmount(t, y)
      rest(y) == AmountsFrom(t, CaptureEnd(t, y), dollar)
      next(y) ==
        IF ~amount(y).isNaN /\ amount(y).v > 0 THEN <<amount(y).v>> \o rest(y) ELSE rest(y)
  IN IF starts = {} THEN <<>> ELSE next(AmountStart(t, Least(starts)))

\* Math.max(...amounts)
MaxOf(amounts) ==
  CHOOSE m \in {amounts[i] : i \in DOMAIN amounts} : \A i \in DOMAIN amounts : amounts[i] <= m

\* a global tier that takes the first amount of the band
GlobalTier_FirstInBand(inBand) ==
  IF inBand = <<>> THEN [tier |-> "none", amount |-> 0]
  ELSE [tier |-> "global", amount |-> inBand[1]]

\* the final fallback of extractBox3OtherIncomeWithFallback over the amounts
\* of the band $10K to $10M
GlobalTier(inBand) ==
  LET small == {i \in DOMAIN inBand : inBand[i] < 1000}
      large == {i \in DOMAIN inBand : inBand[i] >= 100000}
  IN IF inBand = <<>> THEN [tier |-> "none", amount |-> 0]
     ELSE IF small # {} /\ large # {}
     THEN [tier |-> "global", amount |-> inBand[Least(large)]]
     ELSE [tier |-> "global", amount |-> MaxOf(inBand)]

\* the smart fallback over the amounts of the Box 3 context
ContextTier(amounts) ==
  LET significant == SelectSeq(amounts, LAMBDA amt : amt >= 1000)
  IN IF significant # <<>> THEN MaxOf(significant) ELSE MaxOf(amounts)

\* extractBox3OtherIncomeWithFallback: the tier that returns and the amount
Box3OfNormalized(t) ==
  LET valid(y) == y # 0 /\ ~CaptureAmount(t, y).isNaN /\ CaptureAmount(t, y).v > 0
      direct(y) == [tier |-> "direct", amount |-> CaptureAmount(t, y).v]
      fallback(amounts) ==
        IF amounts # <<>> THEN [tier |-> "context", amount |-> ContextTier(amounts)]
        ELSE GlobalTier(SelectSeq(AmountsFrom(t, 1, TRUE),
                                  LAMBDA amt : amt >= 10000 /\ amt <= 10000000))
  IN IF valid(StandardCapture(t)) THEN direct(StandardCapture(t))
     ELSE IF valid(LabelCapture(t)) THEN direct(LabelCapture(t))
     ELSE IF valid(KeywordCapture(t)) THEN direct(KeywordCapture(t))
     ELSE fallback(AmountsFrom(Box3Context(t), 1, FALSE))

extractBox3OtherIncomeWithFallback(ocrText) == Box3OfNormalized(normalizeOCRText(Codes(ocrText)))

\* the lines of the bounded transcripts, and how many lines a transcript has
Box3Lines ==
  << "3 Other income", "3 0ther lncome 0 $350,000.00", "$", "$350,000.00", "$301",
     "4 Federal income tax withheld $25,000", "$ 12,000" >>

MaxBox3Lines == 3

RECURSIVE Box3Texts(_)
\* the transcripts of n lines
Box3Texts(n) ==
  IF n = 0 THEN {""}
  ELSE {IF head = "" THEN Box3Lines[l] ELSE head \o "\n" \o Box3Lines[l] :
          head \in Box3Texts(n - 1), l \in DOMAIN Box3Lines}

InitBox3 ==
  /\ bpc = "start"
  /\ bText \in UNION {Box3Texts(n) : n \in 1..MaxBox3Lines}
  /\ bFound = <<>>
  /\ bData = <<>>
  /\ ClassifierOff
  /\ MiscOff
  /\ ExtractOff
  /\ ConcurrentOff
  /\ AddressOff
  /\ TaxLineOff
  /\ CascadeOff
  /\ PartyOff
  /\ SaveOff

\* extract1099MiscFieldsFromOCR, Box 3: otherIncome is set when the amount of
\* extractBox3OtherIncomeWithFallback is above 0
WithBox3(obj, box3Amount) ==
  IF box3Amount > 0 THEN Put(obj, "otherIncome", Num(box3Amount)) ELSE obj

\* extract1099MiscFieldsFromOCR on bText, up to the assignment of Box 3
ExtractBox3Step ==
  /\ bpc = "start"
  /\ \E found \in {extractBox3OtherIncomeWithFallback(bText)} :
       /\ bFound' = found
       /\ bData' = WithBox3(EmptyObject, found.amount)
  /\ bpc' = "returned"
  /\ UNCHANGED bText
  /\ UNCHANGED bRest

NextBox3 == ExtractBox3Step

SpecBox3 == InitBox3 /\ [][NextBox3]_vars

----------------------------------------------------------------------------
(* Party information: the name and address cascades of                      *)
(* extractPersonalInfoFromOCR and extract1099InfoFromOCR.  A transcript is  *)
(* what each pattern of a cascade finds in it: for a name match[1], for an  *)
(* address the string address built from the groups, "" where the pattern   *)
(* does not match.                                                          *)

\* /^[A-Za-z\s]+$/.test(name)
LettersAndSpaces(t) ==
  t # <<>> /\ \A i \in 1..Len(t) : IsLetter(t[i]) \/ t[i] \in WhiteSpace

\* t.toLowerCase().includes(label)
IncludesLabel(t, label) == Includes(ToLowerCase(t), Codes(label))

EmployeeNameOk(name) == Len(name) > 2 /\ LettersAndSpaces(name)

EmployerNameOk(name) == Len(name) > 2

PayerNameOk(name) == Len(name) > 2 /\ ~IncludesLabel(name, "street address")

W2AddressOk(address) == Len(address) > 5

RecipientAddressOk(address) ==
  /\ Len(address) > 5
  /\ ~IncludesLabel(address, "street address")
  /\ ~IncludesLabel(address, "including apt")
  /\ ~IncludesLabel(address, "city or town")

PayerAddressOk(address) ==
  /\ Len(address) > 5
  /\ ~IncludesLabel(address, "payer")
  /\ ~IncludesLabel(address, "street address")
  /\ ~IncludesLabel(address, "abc company inc")

\* the validator of a cascade
PassesValidatorOf(cascade, t) ==
  CASE cascade \in {"employeeName", "recipientName"} -> EmployeeNameOk(t)
    [] cascade = "employerName" -> EmployerNameOk(t)
    [] cascade = "payerName" -> PayerNameOk(t)
    [] cascade \in {"employeeAddress", "employerAddress"} -> W2AddressOk(t)
    [] cascade = "recipientAddress" -> RecipientAddressOk(t)
    [] cascade = "payerAddress" -> PayerAddressOk(t)

\* for (const patternInfo of patterns): the first candidate that is found and
\* passes the validator of the cascade is assigned to info[key] and ends the
\* loop
PartyCascade(info, key, candidates, cascade) ==
  LET passing == {i \in DOMAIN candidates :
                    candidates[i] # "" /\ PassesValidatorOf(cascade, Codes(candidates[i]))}
  IN IF passing = {} THEN info ELSE Put(info, key, Str(candidates[Least(passing)]))

\* const name = match[1].trim(), for each capture
Names(captures) == [i \in DOMAIN captures |-> FromCodes(Trim(Codes(captures[i])))]

\* personalInfo.address = address.trim()
WithAddressTrimmed(info) ==
  IF "address" \in DOMAIN info
  THEN Put(info, "address", Str(FromCodes(Trim(Codes(info["address"].v)))))
  ELSE info

\* extract1099InfoFromOCR, names and addresses
extract1099InfoFromOCR(found) ==
  PartyCascade(
    PartyCascade(
      PartyCascade(
        PartyCascade(EmptyObject, "name", Names(found.name), "recipientName"),
        "address", found.address, "recipientAddress"),
      "payerName", Names(found.payerName), "payerName"),
    "payerAddress", found.payerAddress, "payerAddress")

\* extractPersonalInfoFromOCR, the W-2 patterns: names and addresses
W2PersonalInfo(found) ==
  PartyCascade(
    PartyCascade(
      WithAddressTrimmed(PartyCascade(
        PartyCascade(EmptyObject, "name", Names(found.name), "employeeName"),
        "address", found.address, "employeeAddress")),
      "employerName", Names(found.employerName), "employerName"),
    "employerAddress", found.employerAddress, "employerAddress")

\* extractPersonalInfoFromOCR, names and addresses
PersonalInfoOf(found) ==
  IF found.is1099Form
  THEN TruthyEntries(extract1099InfoFromOCR(found), {"name", "address", "payerName", "payerAddress"})
  ELSE W2PersonalInfo(found)

\* what the patterns capture
PersonCaptures ==
  { "Al", "Jordan Blake ", "Maximiliana Alexandrina Bartholomea Featherstonehaugh" }

EmployerCaptures == { "Al", "O'Neil-Smith, Inc.", "Acme Corp" }

PayerCaptures == { "Al", "O'Neil-Smith, Inc.", "see street address" }

PartyAddresses == { "PO 1", "12 Main St Ames IA 50010", "Street address" }

NoParty(is1099Form) ==
  IF is1099Form
  THEN [is1099Form |-> TRUE, name |-> NoCaptures(3), address |-> NoCaptures(6),
        payerName |-> NoCaptures(3), payerAddress |-> NoCaptures(4)]
  ELSE [is1099Form |-> FALSE, name |-> NoCaptures(4), address |-> NoCaptures(5),
        employerName |-> NoCaptures(2), employerAddress |-> NoCaptures(2)]

\* the values that the patterns of a cascade capture
PartyCaptures(key) ==
  CASE key = "name" -> PersonCaptures
    [] key = "employerName" -> EmployerCaptures
    [] key = "payerName" -> PayerCaptures
    [] OTHER -> PartyAddresses

\* transcripts in which the patterns of one cascade match
PartyTranscripts ==
  UNION { UNION { { [NoParty(form) EXCEPT ![key] = c] :
                      c \in CaptureTuples(Len(NoParty(form)[key]), PartyCaptures(key)) } :
                  key \in DOMAIN NoParty(form) \ {"is1099Form"} } :
          form \in BOOLEAN }

InitParty ==
  /\ npc = "start"
  /\ nFound \in PartyTranscripts
  /\ nInfo = <<>>
  /\ ClassifierOff
  /\ MiscOff
  /\ ExtractOff
  /\ ConcurrentOff
  /\ AddressOff
  /\ TaxLineOff
  /\ CascadeOff
  /\ Box3Off
  /\ SaveOff

\* extractPersonalInfoFromOCR on a transcript of a 1099 form
Extract1099InfoStep ==
  /\ npc = "start"
  /\ nFound.is1099Form
  /\ nInfo' = PersonalInfoOf(nFound)
  /\ npc' = "returned"
  /\ UNCHANGED nFound
  /\ UNCHANGED nRest

\* extractPersonalInfoFromOCR on any other transcript
ExtractW2InfoStep ==
  /\ npc = "start"
  /\ ~nFound.is1099Form
  /\ nInfo' = PersonalInfoOf(nFound)
  /\ npc' = "returned"
  /\ UNCHANGED nFound
  /\ UNCHANGED nRest

NextParty == Extract1099InfoStep \/ ExtractW2InfoStep

SpecParty == InitParty /\ [][NextParty]_vars

----------------------------------------------------------------------------
(* POST /api/tax-returns/[id]/form-1040: saves of Form 1040 data for one    *)
(* tax return.  Every await of the handler is a step of its own, so the     *)
(* database steps of two requests interleave.                               *)

\* fileName: { contains: part }
Contains(fileName, part) ==
  \E i \in 1..(Len(fileName) - Len(part) + 1) : SubSeq(fileName, i, i + Len(part) - 1) = part

\* `Form_1040_${form1040Data.taxYear}.json`
Form1040FileName(taxYear) == "Form_1040_" \o taxYear \o ".json"

\* where: { taxReturnId, documentType: 'OTHER_TAX_DOCUMENT', fileName: { contains: 'Form_1040' } }
IsForm1040Document(doc) ==
  doc.documentType = "OTHER_TAX_DOCUMENT" /\ Contains(doc.fileName, "Form_1040")

\* prisma.document.findFirst: the position of the first matching document, 0
\* if there is none
FindFirstForm1040(documents) ==
  Least({i \in DOMAIN documents : IsForm1040Document(documents[i])})

\* how many requests there are
MaxPosts == 2

Posts == 1..MaxPosts

TaxYears == {"2023", "2024"}

\* what is stored for the tax return before the requests
StoredDocuments ==
  { <<>>,
    << [fileName |-> "w2.pdf", documentType |-> "W2", extractedData |-> 0] >>,
    << [fileName |-> "w2.pdf", documentType |-> "W2", extractedData |-> 0],
       [fileName |-> Form1040FileName("2023"), documentType |-> "OTHER_TAX_DOCUMENT",
        extractedData |-> 0] >> }

InitSave ==
  /\ qpc = [r \in Posts |-> "start"]
  /\ qRequests \in [Posts -> [taxYear : TaxYears, owner : BOOLEAN]]
  /\ qFound = [r \in Posts |-> 0]
  /\ qDocuments \in StoredDocuments
  /\ qTaxReturn = 0
  /\ ClassifierOff
  /\ MiscOff
  /\ ExtractOff
  /\ ConcurrentOff
  /\ AddressOff
  /\ TaxLineOff
  /\ CascadeOff
  /\ Box3Off
  /\ PartyOff

\* prisma.taxReturn.findFirst: the tax return is not the user's
ReturnNotFound(r) ==
  /\ qpc[r] = "start"
  /\ ~qRequests[r].owner
  /\ qpc' = [qpc EXCEPT ![r] = "notFound"]
  /\ UNCHANGED <<qRequests, qFound, qDocuments, qTaxReturn>>
  /\ UNCHANGED qRest

\* prisma.taxReturn.findFirst: the tax return is the user's
VerifyOwnership(r) ==
  /\ qpc[r] = "start"
  /\ qRequests[r].owner
  /\ qpc' = [qpc EXCEPT ![r] = "verified"]
  /\ UNCHANGED <<qRequests, qFound, qDocuments, qTaxReturn>>
  /\ UNCHANGED qRest

\* prisma.taxReturn.update
UpdateTaxReturn(r) ==
  /\ qpc[r] = "verified"
  /\ qTaxReturn' = r
  /\ qpc' = [qpc EXCEPT ![r] = "updated"]
  /\ UNCHANGED <<qRequests, qFound, qDocuments>>
  /\ UNCHANGED qRest

\* prisma.document.findFirst
FindExistingDocument(r) ==
  /\ qpc[r] = "updated"
  /\ qFound' = [qFound EXCEPT ![r] = FindFirstForm1040(qDocuments)]
  /\ qpc' = [qpc EXCEPT ![r] = "looked"]
  /\ UNCHANGED <<qRequests, qDocuments, qTaxReturn>>
  /\ UNCHANGED qRest

\* prisma.document.update of the document found
UpdateDocument(r) ==
  /\ qpc[r] = "looked"
  /\ qFound[r] # 0
  /\ qDocuments' = [qDocuments EXCEPT
                      ![qFound[r]].extractedData = r,
                      ![qFound[r]].fileName = Form1040FileName(qRequests[r].taxYear)]
  /\ qpc' = [qpc EXCEPT ![r] = "saved"]
  /\ UNCHANGED <<qRequests, qFound, qTaxReturn>>
  /\ UNCHANGED qRest

\* prisma.document.create
CreateDocument(r) ==
  /\ qpc[r] = "looked"
  /\ qFound[r] = 0
  /\ qDocuments' = Append(qDocuments,
                          [fileName |-> Form1040FileName(qRequests[r].taxYear),
                           documentType |-> "OTHER_TAX_DOCUMENT", extractedData |-> r])
  /\ qpc' = [qpc EXCEPT ![r] = "saved"]
  /\ UNCHANGED <<qRequests, qFound, qTaxReturn>>
  /\ UNCHANGED qRest

\* a database call of the save throws: the catch block answers 500
SaveFails(r) ==
  /\ qpc[r] = "looked"
  /\ qpc' = [qpc EXCEPT ![r] = "failed"]
  /\ UNCHANGED <<qRequests, qFound, qDocuments, qTaxReturn>>
  /\ UNCHANGED qRest

NextSave ==
  \E r \in Posts :
    \/ ReturnNotFound(r)
    \/ VerifyOwnership(r)
    \/ UpdateTaxReturn(r)
    \/ FindExistingDocument(r)
    \/ UpdateDocument(r)
    \/ CreateDocument(r)
    \/ SaveFails(r)

SpecSave == InitSave /\ [][NextSave]_vars

----------------------------------------------------------------------------
(* Claims on the classifier *)

MaxScore(scores) == CHOOSE m \in {scores[p] : p \in DOMAIN scores} : \A p \in DOMAIN scores : scores[p] <= m

\* C4 as stated: the family with strictly more hits wins, and every tie, 0-0
\* included, yields UNKNOWN.
C4_TieIsUnknown ==
  cpc # "start" =>
    formType = (IF w2Score > form1099Score THEN "W2"
                ELSE IF form1099Score > w2Score THEN "1099"
                ELSE "UNKNOWN")

\* C4 amended: W2 wins exactly when it has strictly more hits; otherwise any
\* positive 1099 count wins, a positive tie included; UNKNOWN is 0-0 only.
C4_Level1 ==
  cpc # "start" =>
    /\ (formType = "W2") = (w2Score > form1099Score)
    /\ (formType = "1099") = (w2Score <= form1099Score /\ form1099Score > 0)
    /\ (formType = "UNKNOWN") = (w2Score = 0 /\ form1099Score = 0)

\* a positive tie, classified as a 1099
C4_Witness ==
  cpc = "typed" /\ w2Score = form1099Score /\ w2Score > 0 /\ formType = "1099"

\* C5 as stated: the strictly highest score wins, and a shared highest score or
\* all-zero scores yield FORM_1099_MISC.
C5_TieIsMisc ==
  (cpc = "done" /\ formType = "1099") =>
    LET m == MaxScore(subScores)
        top == {p \in DOMAIN subScores : subScores[p] = m}
    IN ocrBasedType = (IF Cardinality(top) = 1 /\ m > 0
                       THEN formTypePatterns[CHOOSE p \in top : TRUE].type
                       ELSE "FORM_1099_MISC")

\* C5 amended: the winner is the first pattern, in the order DIV, INT, MISC,
\* NEC, that reaches the highest score; all-zero scores yield FORM_1099_MISC.
C5_Level2 ==
  (cpc = "done" /\ formType = "1099") =>
    LET m == MaxScore(subScores)
        top == {p \in DOMAIN subScores : subScores[p] = m}
        first == CHOOSE p \in top : \A q \in top : p <= q
    IN ocrBasedType = (IF m > 0 THEN formTypePatterns[first].type ELSE "FORM_1099_MISC")

\* two subtypes share the highest score and the result is not FORM_1099_MISC
C5_Witness ==
  /\ cpc = "done" /\ formType = "1099"
  /\ Cardinality({p \in DOMAIN subScores : subScores[p] = MaxScore(subScores)}) >= 2
  /\ MaxScore(subScores) > 0
  /\ ocrBasedType = "FORM_1099_DIV"

----------------------------------------------------------------------------
(* Claims on the cross-source reconciler *)

CriticalFieldSet == {criticalFields[i] : i \in 1..Len(criticalFields)}

\* the reconciler has run
Validated == mpc = "validated"

\* the two readings of a critical field differ by at most the tolerance
WithinTolerance(f) == Abs(AmountOf(structuredData, f) - AmountOf(ocrData, f)) <= 100

\* Pattern 2 has moved the structured Box 6 amount into field f
MedicalMovedInto(f) ==
  /\ f \in {"otherIncome", "fishingBoatProceeds"}
  /\ AmountOf(structuredData, "medicalHealthPayments") > 0
  /\ AmountOf(ocrData, "medicalHealthPayments") = 0
  /\ Abs(AmountOf(structuredData, "medicalHealthPayments") - AmountOf(ocrData, f)) < 100
  /\ Get(result, f) = Num(AmountOf(structuredData, "medicalHealthPayments"))
  /\ Get(result, "medicalHealthPayments") = Num(0)

\* Pattern 2 has moved the structured Box 6 amount out of field f
MedicalMovedOutOf(f) ==
  /\ f = "medicalHealthPayments"
  /\ Get(result, f) = Num(0)
  /\ MedicalMovedInto("otherIncome") \/ MedicalMovedInto("fishingBoatProceeds")

\* C6 as stated: a critical field whose two readings agree within the
\* tolerance keeps its structured value, whatever the other fields hold.
C6_WithinToleranceUnchanged ==
  Validated =>
    \A f \in CriticalFieldSet :
      WithinTolerance(f) => Get(result, f) = Get(structuredData, f)

\* C6 amended: a critical field whose two readings agree within the tolerance
\* keeps its structured value unless the Box 6 relocation moves an amount into
\* it (it then holds the moved amount) or out of it (it then holds 0); rents,
\* royalties and federalTaxWithheld always keep it.
C6_Frame ==
  Validated =>
    \A f \in CriticalFieldSet :
      WithinTolerance(f) =>
        \/ Get(result, f) = Get(structuredData, f)
        \/ MedicalMovedInto(f)
        \/ MedicalMovedOutOf(f)

\* two positive readings that differ within the tolerance: the structured one
\* is kept while another field of the same document is corrected
C6_Witness ==
  /\ Validated
  /\ result # structuredData
  /\ \E f \in CriticalFieldSet :
       /\ AmountOf(structuredData, f) > 0 /\ AmountOf(ocrData, f) > 0
       /\ AmountOf(structuredData, f) # AmountOf(ocrData, f)
       /\ WithinTolerance(f)
       /\ Get(result, f) = Get(structuredData, f)

\* C7 as stated: a critical field whose two readings differ by more than the
\* tolerance holds the OCR reading in the output.
C7_OcrAlwaysWins ==
  Validated =>
    \A f \in CriticalFieldSet :
      ~WithinTolerance(f) => Get(result, f) = Num(AmountOf(ocrData, f))

\* C7 amended: a critical field whose two readings differ by more than the
\* tolerance holds the OCR reading (0 when OCR read nothing), unless the Box 6
\* relocation moved the structured Box 6 amount into it.
C7_OcrWins ==
  Validated =>
    \A f \in CriticalFieldSet :
      ~WithinTolerance(f) =>
        \/ Get(result, f) = Num(AmountOf(ocrData, f))
        \/ MedicalMovedInto(f)

\* two positive readings further apart than the tolerance: OCR replaced the
\* structured one
C7_Witness ==
  /\ Validated
  /\ \E f \in CriticalFieldSet :
       /\ AmountOf(structuredData, f) > 0 /\ AmountOf(ocrData, f) > 0
       /\ ~WithinTolerance(f)
       /\ Get(result, f) = Num(AmountOf(ocrData, f))
       /\ Get(result, f) # Get(structuredData, f)

\* the vendor's structured value of f is zero or absent and OCR read a
\* positive amount
GapAt(f) == AmountOf(mapped, f) = 0 /\ AmountOf(ocrData, f) > 0

\* C8 as stated: a critical field whose structured value is zero or absent and
\* whose OCR reading is positive holds the OCR reading in the output.
C8_GapAlwaysFilled ==
  Validated =>
    \A f \in CriticalFieldSet :
      GapAt(f) => Get(result, f) = Num(AmountOf(ocrData, f))

\* C8 amended: such a field holds the OCR reading unless the Box 6 relocation
\* moved the structured Box 6 amount into it.
C8_GapFill ==
  Validated =>
    \A f \in CriticalFieldSet :
      GapAt(f) =>
        \/ Get(result, f) = Num(AmountOf(ocrData, f))
        \/ MedicalMovedInto(f)

\* structured 0 and OCR 50000 give 50000
C8_Witness ==
  /\ Validated
  /\ Get(mapped, "otherIncome") = Num(0)
  /\ AmountOf(ocrData, "otherIncome") = 50000
  /\ Get(result, "otherIncome") = Num(50000)

\* the amounts read by either source, for any field
ObservedAmounts ==
  {structuredData[g].v : g \in {x \in DOMAIN structuredData : structuredData[x].k = "number"}}
  \cup {ocrData[g].v : g \in {x \in DOMAIN ocrData : ocrData[x].k = "number"}}

\* the critical fields the reconciler gave another value
Rewritten == {f \in CriticalFieldSet : Get(result, f) # Get(structuredData, f)}

\* C9 as stated: every value the reconciler writes was read by one of the two
\* sources, for that field or another one.
C9_OnlyObserved ==
  Validated => \A f \in Rewritten : result[f].v \in ObservedAmounts

\* C9 amended: every value the reconciler writes is an amount read by one of
\* the two sources, for that field or another one, or is 0.
C9_ObservedOrZero ==
  Validated =>
    /\ DOMAIN structuredData \subseteq DOMAIN result
    /\ \A f \in DOMAIN result \ CriticalFieldSet : Get(result, f) = Get(structuredData, f)
    /\ \A f \in Rewritten : result[f].v = 0 \/ result[f].v \in ObservedAmounts

\* a relocation: a positive structured amount appears in another field and
\* its own field is cleared
C9_Witness ==
  /\ Validated
  /\ \E f \in Rewritten : result[f].v > 0 /\ result[f].v # AmountOf(ocrData, f)
  /\ \E f \in Rewritten : result[f].v = 0

----------------------------------------------------------------------------
(* Claims on extractDataFromDocument *)

Thrown == opc = "thrown"
Returned == opc = "returned"

\* the primary call has been made and has failed
PrimaryFailed == Len(calls) >= 1 /\ ~calls[1].ok

\* the failures the service takes for "model/resource not found"
NotFoundFailure(err) ==
  err.message \in {"ModelNotFound", "Resource not found"} \/ err.code = "NotFound"

FallbackCall(ok) == [modelId |-> "prebuilt-read", ok |-> ok]

\* C1, as stated: in every run that ends in a thrown error, the primary call
\* failed and the fallback call was also made and failed.
C1_BothCallsFailed ==
  Thrown => PrimaryFailed /\ Len(calls) = 2 /\ calls[2] = FallbackCall(FALSE)

\* C1, amended: a run that ends in a thrown error is one where the file could
\* not be read and no remote call was made, or the primary call failed with a
\* failure other than "not found" and the fallback call was never made, or
\* the primary call failed with "not found" and the fallback call was made
\* and failed; the thrown error carries the underlying message and nothing is
\* returned.
C1_ThrownCauses ==
  Thrown =>
    /\ \/ documentPathOrBuffer = "missing path" /\ calls = <<>>
       \/ PrimaryFailed /\ Len(calls) = 1 /\ ~NotFoundFailure(modelError)
                        /\ error = modelError
       \/ PrimaryFailed /\ Len(calls) = 2 /\ NotFoundFailure(modelError)
                        /\ calls[2] = FallbackCall(FALSE)
    /\ thrown = "Azure Document Intelligence processing failed: " \o error.message
    /\ returned = EmptyObject

C1_Witness ==
  Thrown /\ PrimaryFailed /\ Len(calls) = 1 /\ modelError.message = "Request timed out"

\* C2: after a primary failure recognised as "model/resource not found" the
\* generic full-text model is invoked and only the OCR extraction path is
\* used from then on; after any other primary failure the fallback model is
\* never invoked, nothing is extracted or returned, and the call is on its
\* way to the thrown error.
C2_NotFoundFallsBack ==
  PrimaryFailed =>
    IF NotFoundFailure(modelError)
    THEN /\ opc # "caught" => Len(calls) = 2 /\ calls[2].modelId = "prebuilt-read"
         /\ usedPath # "structured"
         /\ opc \in {"extracted", "corrected", "returned"} => usedPath = "ocr"
         /\ Returned =>
              \E type \in {documentType} \cup DocumentTypeValues :
                LET pass == extractTaxDocumentFieldsFromOCR(ReadResponse(vendor.response),
                                                            type)
                IN returned \in {pass, Put(pass, "correctedDocumentType", Str(type))}
    ELSE /\ Len(calls) = 1
         /\ opc \in {"caught", "failed", "thrown"}
         /\ usedPath = "none"
         /\ extractedData = EmptyObject
         /\ returned = EmptyObject

C2_Witness ==
  /\ Returned
  /\ PrimaryFailed
  /\ modelError.code = "NotFound"
  /\ calls[2] = FallbackCall(TRUE)
  /\ vendor.response.hasFields
  /\ "ordinaryDividends" \in DOMAIN returned

\* the pass under a subtype on the path that produced the first result
PassOnPath(type) ==
  IF usedPath = "structured" THEN extractTaxDocumentFields(apiResult, type)
  ELSE extractTaxDocumentFieldsFromOCR(apiResult, type)

\* the classifier's verdict on the transcript obtained from the vendor
WinningSubtype == AnalyzeDocumentTypeFromOCR(JoinLines(apiResult.content.lines))

\* C3: when the classifier's winning subtype on the obtained transcript
\* differs from the claimed subtype and is a recognized subtype value, the
\* returned field values are those of the pass under the winning subtype on
\* the path that produced the first result and correctedDocumentType is the
\* winning subtype; otherwise correctedDocumentType is absent and the values
\* are those of the pass under the claimed subtype.
C3_Reclassification ==
  Returned =>
    IF WinningSubtype # documentType /\ WinningSubtype \in DocumentTypeValues
    THEN returned = Put(PassOnPath(WinningSubtype), "correctedDocumentType",
                        Str(WinningSubtype))
    ELSE returned = PassOnPath(documentType)
         /\ "correctedDocumentType" \notin DOMAIN returned

C3_Witness ==
  /\ Returned
  /\ documentType = "FORM_1099_NEC"
  /\ WinningSubtype = "FORM_1099_DIV"
  /\ Get(returned, "correctedDocumentType") = Str("FORM_1099_DIV")
  /\ "ordinaryDividends" \in DOMAIN returned
  /\ "nonemployeeCompensation" \in DOMAIN PassOnPath("FORM_1099_NEC")
  /\ "nonemployeeCompensation" \notin DOMAIN returned

\* keys of the field map that are not extracted fields
ReservedKeys == {"fullText", "correctedDocumentType"}

\* the values the claim calls placeholders (the model has no null)
Placeholders == {Num(0), Str(""), Undefined}

\* the mapping tables of the five subtype passes: <<vendor name, field>>
MappingTables ==
  w2FieldMappings \o fieldMappings \o intFieldMappings \o divFieldMappings
  \o necFieldMappings

\* the vendor's analysis holds a value that a pass stores under the key
VendorSupplied(key) ==
  \/ key \in DOMAIN apiResult.fields
  \/ \E i \in 1..Len(MappingTables) :
       MappingTables[i][2] = key /\ MappingTables[i][1] \in DOMAIN apiResult.fields
  \/ \E i \in 1..Len(apiResult.keyValuePairs) : apiResult.keyValuePairs[i][1] = key

\* a pattern of some tier matched in the transcript for the key
PatternSupplied(key) ==
  LET found == apiResult.content
      personal == personalInfoToW2 \o personalInfoTo1099
  IN \/ key \in DOMAIN found.amounts \cup DOMAIN found.w2Amounts
                \cup DOMAIN found.intAmounts \cup DOMAIN found.divAmounts
                \cup DOMAIN found.necAmounts \cup DOMAIN found.accountNumber
     \/ key = "wages" /\ found.wages > 0
     \/ key = "otherIncome" /\ found.box3 > 0
     \/ key = "medicalHealthPayments" /\ found.medicalPayments # <<>>
     \/ \E i \in 1..Len(personal) :
          /\ personal[i][2] = key
          /\ personal[i][1] \in DOMAIN found.info1099 \cup DOMAIN found.infoW2

\* the fields of the returned map that hold a placeholder although neither
\* the vendor nor a pattern supplied a value for them
PlaceholderFields ==
  { key \in DOMAIN returned \ ReservedKeys :
      /\ returned[key] \in Placeholders
      /\ ~VendorSupplied(key)
      /\ ~PatternSupplied(key) }

\* C10, as stated: a field for which no pattern matched and no source
\* supplied a value is absent from the resolved field map; it is never
\* emitted as a placeholder 0, empty string or undefined-valued key.
C10_NoPlaceholders == Returned => PlaceholderFields = {}

----------------------------------------------------------------------------
(* Claims on the amounts of the resolved map *)

\* the fields of the returned map that hold a number
NumericFields == {key \in DOMAIN returned : returned[key].k = "number"}

\* C11: in every returned map, each field that holds a number holds a
\* non-negative one
C11_NonNegativeAmounts ==
  Returned => \A key \in NumericFields : returned[key].v >= 0

----------------------------------------------------------------------------
(* Claims on the remote calls of one run *)

\* the step issues the primary call: nothing was called before it
IssuesPrimary ==
  /\ opc = "ready"
  /\ calls = <<>>
  /\ Len(calls') = 1
  /\ calls'[1].modelId = getModelIdForDocumentType(documentType)

\* the step issues the fallback call: the primary call is over and has failed
IssuesFallback ==
  /\ opc = "caught"
  /\ Len(calls) = 1 /\ ~calls[1].ok
  /\ calls' = Append(calls, FallbackCall(calls'[2].ok))

\* C12: the remote calls of one run are sequential and not retried: a step
\* that issues a call issues either the primary call, when no call has been
\* issued yet, or the fallback call, when the only call so far is the failed
\* primary call; so at most one primary and one fallback call are issued, and
\* the steps of extraction, classification and re-extraction issue none.
C12_SequentialCalls ==
  [][calls' # calls => IssuesPrimary \/ IssuesFallback]_vars

\* a run that fell back, reclassified the document and returned
C12_Witness ==
  /\ Returned
  /\ calls = << [modelId |-> "prebuilt-tax.us.w2", ok |-> FALSE], FallbackCall(TRUE) >>
  /\ Truthy(correctedDocumentType)

----------------------------------------------------------------------------
(* Claims on concurrent calls *)

RECURSIVE RunAlone(_, _)
\* the call run from its entry to its end with nothing in between
RunAlone(run, behaviour) ==
  IF Settled(run) THEN run ELSE RunAlone(Advance(run, behaviour), behaviour)

----------------------------------------------------------------------------
(* Claims on repeated classifier calls *)

----------------------------------------------------------------------------
(* Claims on the relocation rules of the 1099-MISC reconciler *)

\* the pairs <<A, B>> of the named rules
RelocationPairs ==
  { <<"fishingBoatProceeds", "otherIncome">>,
    <<"medicalHealthPayments", "otherIncome">>,
    <<"medicalHealthPayments", "fishingBoatProceeds">> }

\* structured extraction gave A a value that A's own patterns do not find in
\* the text and that B's patterns do find
ContaminatedBy(a, b) ==
  /\ AmountOf(mapped, a) > 0
  /\ AmountOf(ocrData, a) = 0
  /\ AmountOf(ocrData, b) = AmountOf(mapped, a)

\* the result carries A's structured value in B and zero in A
RelocatedTo(a, b) ==
  /\ AmountOf(result, b) = AmountOf(mapped, a)
  /\ AmountOf(result, a) = 0

\* C15: whenever structured extraction gave A a value that is absent from A's
\* own OCR cascade and equal to B's OCR value, the reconciled output carries
\* that value in B and zero in A; and the output carries A's structured value
\* in B (which structured extraction had not given that value) and zero in A
\* in no other situation than A's value being absent from A's OCR cascade and
\* within 100 of a value that B's OCR cascade found.
C15_Relocation ==
  Validated =>
    /\ ContaminatedBy("fishingBoatProceeds", "otherIncome")
         => RelocatedTo("fishingBoatProceeds", "otherIncome")
    /\ \/ ContaminatedBy("medicalHealthPayments", "otherIncome")
       \/ ContaminatedBy("medicalHealthPayments", "fishingBoatProceeds")
         => \/ RelocatedTo("medicalHealthPayments", "otherIncome")
            \/ RelocatedTo("medicalHealthPayments", "fishingBoatProceeds")
    /\ \A pair \in RelocationPairs :
         /\ RelocatedTo(pair[1], pair[2])
         /\ AmountOf(mapped, pair[1]) > 0
         /\ AmountOf(mapped, pair[2]) # AmountOf(mapped, pair[1])
         => /\ AmountOf(ocrData, pair[1]) = 0
            /\ AmountOf(ocrData, pair[2]) > 0
            /\ Abs(AmountOf(mapped, pair[1]) - AmountOf(ocrData, pair[2])) < 100

----------------------------------------------------------------------------
(* Claims on what cross-source reconciliation leaves alone *)

\* the call returned the result of a structured pass
StructuredReturn == Returned /\ usedPath = "structured" /\ apiResult.hasFields

\* the type of the pass that produced the returned map
FinalType ==
  IF Truthy(correctedDocumentType) THEN correctedDocumentType.v ELSE documentType

\* the 1099-MISC structured result as it enters validateAndCorrect1099MiscFields
BeforeReconciliation ==
  LET base == [fullText |-> FullText(apiResult.content)]
  IN MiscGapFill(MiscPersonalFallback(
                   MapMiscFields(base, apiResult.fields, Len(fieldMappings)), base), base)

\* the rows of a pass's mapping table that map amounts
MonetaryMappings(type) ==
  CASE type = "W2" -> SubSeq(w2FieldMappings, 7, Len(w2FieldMappings))
    [] type = "FORM_1099_INT" ->
         SubSeq(intFieldMappings, Len(partyMappings) + 1, Len(intFieldMappings))
    [] type = "FORM_1099_DIV" ->
         SubSeq(divFieldMappings, Len(partyMappings) + 1, Len(divFieldMappings))
    [] type = "FORM_1099_NEC" ->
         SubSeq(necFieldMappings, Len(partyMappings) + 1, Len(necFieldMappings))
    [] OTHER -> <<>>

----------------------------------------------------------------------------
(* Claims on the mapping loops *)

\* the mapping loop of the pass is over
Mapped == mpc \in {"mapped", "returned"}

\* what the claim says a canonical field receives
PassedThrough(value) == IF value.k = "number" THEN value ELSE Num(parseAmount(value))

\* the rows of the table whose vendor key carries a value
CarriedRows(table) == {i \in 1..Len(table) : table[i][1] \in DOMAIN fields}

\* C17 as stated: for every vendor key of the subtype's table that carries a
\* value, the canonical field holds the vendor value itself when it is a
\* number and the Normalizer's result otherwise; for an unknown subtype every
\* primitive-valued vendor field is copied under its vendor key.
C17_EveryKeyMapped ==
  Mapped =>
    IF documentType \in DocumentTypeValues
    THEN \A i \in CarriedRows(MappingTable(documentType)) :
           Get(mapped, MappingTable(documentType)[i][2])
             = PassedThrough(fields[MappingTable(documentType)[i][1]])
    ELSE \A key \in DOMAIN fields :
           fields[key].k \in {"number", "string", "boolean"}
             => Get(mapped, key) = fields[key]

\* C17 amended: after the mapping loop the result holds, beside fullText,
\* exactly the canonical names of the table rows whose vendor key carries a
\* value, each with the value of the last such row: the vendor value itself
\* when it is a number and the Normalizer's result otherwise, except that
\* accountNumber and statePayerNumber of the 1099-MISC table hold the value
\* written as a trimmed string; for an unknown subtype it holds exactly the
\* vendor fields whose value is a string or a number, under their vendor keys.
C17_Mapper ==
  Mapped =>
    IF documentType \in DocumentTypeValues
    THEN LET table == MappingTable(documentType)
             rowsOf(name) == {i \in CarriedRows(table) : table[i][2] = name}
             expected(name, value) ==
               IF documentType = "FORM_1099_MISC"
                  /\ name \in {"accountNumber", "statePayerNumber"}
               THEN (IF value.k = "string" THEN value ELSE Str(ToString(value.v)))
               ELSE PassedThrough(value)
         IN /\ DOMAIN mapped
                 = {"fullText"} \cup {table[i][2] : i \in CarriedRows(table)}
            /\ \A i \in CarriedRows(table) :
                 mapped[table[i][2]]
                   = expected(table[i][2], fields[table[Greatest(rowsOf(table[i][2]))][1]])
    ELSE /\ DOMAIN mapped
              = {"fullText"} \cup {key \in DOMAIN fields : fields[key].k \in {"number", "string"}}
         /\ \A key \in DOMAIN mapped \ {"fullText"} : mapped[key] = fields[key]

\* a 1099-NEC pass that mapped an amount written as text through the
\* Normalizer and a number as it is
C17_Witness ==
  /\ Mapped
  /\ documentType = "FORM_1099_NEC"
  /\ Get(fields, "NonemployeeCompensation") = Str("$1,250")
  /\ Get(mapped, "nonemployeeCompensation") = Num(1250)
  /\ Get(mapped, "federalTaxWithheld") = Num(-141)

----------------------------------------------------------------------------
(* Claims on the vendor's response *)

\* what the remote call that resolved has returned
ResponseReturned ==
  IF Len(calls) = 1 THEN vendor.response ELSE ReadResponse(vendor.response)

\* C18: no extraction pass changes the vendor's response: from the moment a
\* remote call resolves to the end of the run, through the first extraction
\* and the reclassification re-extraction, the response the run holds is the
\* one the remote call returned, field map and transcript alike, and the
\* re-extraction is computed from it.
C18_ResponseUnchanged ==
  /\ opc \in {"analyzed", "fallback analyzed", "extracted", "corrected", "returned"}
       => apiResult = ResponseReturned
  /\ opc = "corrected" /\ Truthy(correctedDocumentType)
       => extractedData = Pass(ResponseReturned, correctedDocumentType.v,
                               usedPath = "structured")

\* a structured run over vendor fields that was re-extracted under the
\* corrected type
C18_Witness ==
  /\ opc = "corrected"
  /\ usedPath = "structured"
  /\ correctedDocumentType = Str("FORM_1099_INT")
  /\ apiResult.fields = SignedVendorFields
  /\ Get(extractedData, "interestIncome") = Num(-40)

----------------------------------------------------------------------------
(* Claims on the models the calls use *)

\* C19: the primary call uses the W-2 model for W2, the unified 1099 model
\* for each of FORM_1099_INT, FORM_1099_DIV, FORM_1099_MISC and FORM_1099_NEC
\* and the generic document model for every other claimed type; the fallback
\* call uses the generic full-text model.
C19_ModelOfType ==
  /\ Len(calls) >= 1 =>
       /\ documentType = "W2" => calls[1].modelId = "prebuilt-tax.us.w2"
       /\ documentType \in {"FORM_1099_INT", "FORM_1099_DIV", "FORM_1099_MISC",
                             "FORM_1099_NEC"} => calls[1].modelId = "prebuilt-tax.us.1099"
       /\ documentType \notin DocumentTypeValues => calls[1].modelId = "prebuilt-document"
  /\ Len(calls) >= 2 => calls[2].modelId = "prebuilt-read"

\* a 1099-NEC whose primary call failed and whose fallback call resolved
C19_Witness ==
  /\ documentType = "FORM_1099_NEC"
  /\ Len(calls) = 2
  /\ calls[1] = [modelId |-> "prebuilt-tax.us.1099", ok |-> FALSE]
  /\ calls[2].ok
  /\ opc = "fallback analyzed"

----------------------------------------------------------------------------
(* Claims on the address decomposer *)

\* C20: the decomposer run on a street it produced yields neither a state
\* nor a ZIP code.
C20_StreetHasNoStateOrZip ==
  apc = "reparsed" =>
    /\ ~Truthy(Get(aStreetParts, "state"))
    /\ ~Truthy(Get(aStreetParts, "zipCode"))

\* the address as the decomposer reads it: trimmed, every run of white space
\* one blank
CleanAddress(address) == CollapseSpaces(Trim(Codes(address)))

\* no structural pattern matches the address: neither street, city, state and
\* ZIP code, nor a ZIP code at the end, nor a state before it
AllPatternsFail(address) ==
  /\ StandardStreetLength(CleanAddress(address)) = 0
  /\ ZipLength(CleanAddress(address)) = 0
  /\ StatePatternStart(CleanAddress(address)) = 0

\* the parts hold no city, no state and no ZIP code
OnlyStreet(parts) ==
  \A part \in {"city", "state", "zipCode"} : ~Truthy(Get(parts, part))

\* C21 as stated: when every structural pattern fails, the whole address
\* string is the street, and city, state and ZIP code are empty.
C21_WholeStringIsStreet ==
  (apc # "start" /\ AllPatternsFail(aAddress)) =>
    /\ Get(aParts, "street") = Str(aAddress)
    /\ OnlyStreet(aParts)

\* C21: when every structural pattern fails, the street is the whole address
\* string trimmed and with every run of white space replaced by one blank, and
\* city, state and ZIP code are empty.
C21_CleanStringIsStreet ==
  (apc # "start" /\ AllPatternsFail(aAddress)) =>
    /\ Get(aParts, "street") = Str(FromCodes(CleanAddress(aAddress)))
    /\ OnlyStreet(aParts)

C21_Witness ==
  /\ apc = "parsed"
  /\ aAddress = " 12  Main\nSt"
  /\ AllPatternsFail(aAddress)
  /\ aParts["street"] = Str("12 Main St")

\* the state a transcript names after the label "State: ": its two capitals, or
\* nothing
LabelledState(transcript) ==
  LET label == Codes("State: ")
      named(t, at) ==
        IF at = 0 THEN <<>> ELSE SubSeq(t, at + Len(label), at + Len(label) + 1)
      first(t) ==
        Least({i \in 1..(Len(t) - Len(label) - 1) :
                 /\ SubSeq(t, i, i + Len(label) - 1) = label
                 /\ IsUpper(t[i + Len(label)])
                 /\ IsUpper(t[i + Len(label) + 1])})
  IN named(Codes(transcript), first(Codes(transcript)))

\* the address string itself yields no state
AddressLacksState(address) ==
  /\ StandardStreetLength(CleanAddress(address)) = 0
  /\ StatePatternStart(CleanAddress(address)) = 0

\* C22: when the address string yields no state and the transcript handed to
\* the decomposer holds an explicit state label, the decomposer returns that
\* state.
C22_StateFromTranscript ==
  (apc # "start" /\ AddressLacksState(aAddress) /\ LabelledState(aOcrText) # <<>>) =>
    Get(aParts, "state") = Str(FromCodes(LabelledState(aOcrText)))

----------------------------------------------------------------------------
(* Claims on the tax-line mapper *)

\* the field map the mapper reads
ActualW2Data ==
  IF Get(tW2Data, "extractedData").k = "object" THEN tW2Data["extractedData"].v ELSE tW2Data

\* a numeric value: a number, or a string that is digits once currency signs,
\* commas and blanks are removed
IsNumeric(val) ==
  \/ val.k = "number"
  \/ /\ val.k = "string"
     /\ \E c \in DOMAIN Codes(val.v) : IsDigit(Codes(val.v)[c])
     /\ \A c \in DOMAIN Codes(val.v) : IsDigit(Codes(val.v)[c]) \/ Codes(val.v)[c] \in AmountNoise

\* what the mapping added to a line
AddedTo(line) == LineOrZero(tForm, line) - LineOrZero(tExisting, line)

\* the line received nothing, or the amount of one of the given fields, and
\* nothing if none of the fields holds a numeric value
OneFieldCopied(line, keys) ==
  /\ \/ AddedTo(line) = 0
     \/ \E i \in 1..Len(keys) :
          /\ IsNumeric(Get(ActualW2Data, keys[i]))
          /\ AddedTo(line) = W2MapperParseAmount(ActualW2Data[keys[i]])
  /\ (\A i \in 1..Len(keys) : ~IsNumeric(Get(ActualW2Data, keys[i]))) => AddedTo(line) = 0

\* C23: the tax-line mapper adds to line 1 the amount of at most one income
\* field and to line 25a the amount of at most one withholding field, and a
\* non-numeric or absent value contributes zero to its line.
C23_NonNumericIsZero ==
  tpc = "mapped" =>
    /\ OneFieldCopied("line1", wagesValueKeys)
    /\ OneFieldCopied("line25a", federalTaxWithheldValueKeys)

----------------------------------------------------------------------------
(* Claims on the pattern cascades *)

\* the captures of the patterns of a field, and the value a capture stands for
CapturesOf(field) ==
  IF field = "wages" THEN kTranscript.wageCaptures ELSE kTranscript.captures[field]

ValueOfCapture(field, capture) ==
  IF field = "statePayerNumber" THEN Str(FromCodes(Trim(Codes(capture))))
  ELSE Num(ParseFloat(WithoutCommas(capture)).v)

\* the validator of a field: a wage is an amount above 0 and below
\* 100,000,000, another amount is a number from 0 on, a text is any capture
PassesValidator(field, capture) ==
  /\ capture # ""
  /\ field # "statePayerNumber" => ~ParseFloat(WithoutCommas(capture)).isNaN
  /\ field = "wages" => /\ ParseFloat(WithoutCommas(capture)).v > 0
                        /\ ParseFloat(WithoutCommas(capture)).v < 100000000

\* the first pattern, in priority order, whose capture passes the validator
FirstPassing(field) ==
  Least({i \in DOMAIN CapturesOf(field) : PassesValidator(field, CapturesOf(field)[i])})

\* the fields of the transcript's form
FieldsOfKind ==
  IF kTranscript.kind = "W2" THEN {"wages"} ELSE {cascadeFields[n] : n \in DOMAIN cascadeFields}

\* the Box 6 patterns that follow the six of medicalHealthPayments found this
\* amount first
FirstMedicalPayment(amount) ==
  /\ MedicalPaymentsOf(kTranscript.medicalCaptures, kTranscript.contextCaptures) # <<>>
  /\ amount = Num(MedicalPaymentsOf(kTranscript.medicalCaptures,
                                    kTranscript.contextCaptures)[1])

\* if a pattern of the field passes, the field holds the value of the first
\* such pattern; if none does, the field is not emitted (the wages are 0),
\* or, for Box 6, holds what the patterns after the list found first
FirstPassingWins(field) ==
  IF FirstPassing(field) # 0
  THEN Get(kData, field) = ValueOfCapture(field, CapturesOf(field)[FirstPassing(field)])
  ELSE \/ field = "wages" /\ kData[field] = Num(0)
       \/ field \notin DOMAIN kData
       \/ field = "medicalHealthPayments" /\ FirstMedicalPayment(kData[field])

\* C24: for every field the patterns are tried in priority order and the
\* emitted value is the capture of the first pattern that passes the field's
\* validator; no later pattern replaces it and no failing value is emitted.
C24_FirstPassingWins ==
  kpc = "extracted" => \A field \in FieldsOfKind : FirstPassingWins(field)

----------------------------------------------------------------------------
(* Claims on Box 3 of the 1099-MISC *)

\* the transcript of the run, normalised
NormalizedText == normalizeOCRText(Codes(bText))

\* the text between the first Box 3 label of t and the Box 4 label after it
\* (the end of t if there is none)
LabelWindow(t) ==
  LET box4(k) == IsBoxNumberAt(t, k, "4") /\ k < Len(t) /\ t[k + 1] \in WhiteSpace
      upTo(e, k) == SubSeq(t, e, k - 1)
      from(e) == upTo(e, Least({k \in e..(Len(t) + 1) : k > Len(t) \/ box4(k)}))
  IN IF Box3Labels(t) = {} THEN <<>> ELSE from(LabelEnd(t, Least(Box3Labels(t))))

\* the numeric tokens of the window that reach the floor
PlausibleTokens == SelectSeq(AmountsFrom(LabelWindow(NormalizedText), 1, FALSE), LAMBDA amt : amt >= 1000)

\* C25: when no direct pattern matches and the context tier returns, the
\* amount is the largest numeric token, at or above the floor of 1000, of the
\* text between the Box 3 label and the Box 4 label; a token below the floor
\* is never returned by this tier.
C25_ContextAtOrAboveFloor ==
  (bpc = "returned" /\ bFound.tier = "context") =>
    /\ bFound.amount >= 1000
    /\ PlausibleTokens # <<>>
    /\ bFound.amount = MaxOf(PlausibleTokens)

\* the amounts written after a dollar sign in the transcript
DollarAmounts == AmountsFrom(NormalizedText, 1, TRUE)

InBand(amt) == amt >= 10000 /\ amt <= 10000000

HasInBand == SelectSeq(DollarAmounts, LAMBDA amt : InBand(amt)) # <<>>

\* an amount of the band that is clearly larger stands in the transcript
\* together with a suspiciously small one
LargerWithSmall ==
  /\ SelectSeq(DollarAmounts, LAMBDA amt : InBand(amt) /\ amt >= 100000) # <<>>
  /\ SelectSeq(DollarAmounts, LAMBDA amt : amt < 1000) # <<>>

\* C26: when the direct patterns and the context tier have failed, the amount
\* returned is an amount of the transcript within the band 10,000 to
\* 10,000,000 and becomes otherIncome; when a clearly larger amount stands in
\* the transcript with one below 1,000 the clearly larger one is returned;
\* with no amount in the band otherIncome is not produced.
C26_GlobalTierInBand ==
  (bpc = "returned" /\ bFound.tier \in {"global", "none"}) =>
    /\ HasInBand <=> bFound.tier = "global"
    /\ bFound.tier = "global" =>
         /\ InBand(bFound.amount)
         /\ SelectSeq(DollarAmounts, LAMBDA amt : amt = bFound.amount) # <<>>
         /\ bData = [otherIncome |-> Num(bFound.amount)]
         /\ LargerWithSmall => bFound.amount >= 100000
    /\ bFound.tier = "none" => "otherIncome" \notin DOMAIN bData

\* the global tier returned with a small amount and a clearly larger one in
\* the transcript, among them an amount of the band that is not the largest
C26_Witness ==
  /\ bpc = "returned"
  /\ bFound.tier = "global"
  /\ LargerWithSmall
  /\ SelectSeq(DollarAmounts, LAMBDA amt : InBand(amt) /\ amt < bFound.amount) # <<>>
  /\ bData = [otherIncome |-> Num(bFound.amount)]

\* the global tier found no amount in the band
C26_NothingInBand ==
  /\ bpc = "returned"
  /\ bFound.tier = "none"
  /\ DollarAmounts # <<>>
  /\ bData = EmptyObject

----------------------------------------------------------------------------
(* Claims on the party information *)

NameKeys == {"name", "employerName", "payerName"}

AddressKeys == {"address", "employerAddress", "payerAddress"}

\* the validator of a name: letters and blanks only, 3 to 50 characters
IsPartyName(t) ==
  /\ Len(t) >= 3 /\ Len(t) <= 50
  /\ \A i \in 1..Len(t) : IsLetter(t[i]) \/ t[i] = Code[" "]

\* the label strings of the forms
KnownLabels == {"street address", "including apt", "city or town"}

\* the validator of an address: the minimum length, and no label of the form
IsPartyAddress(t) ==
  /\ Len(t) > 5
  /\ \A label \in KnownLabels : ToLowerCase(t) # Codes(label)

\* the candidates of a cascade of the transcript, as the validator reads them
CandidatesOf(key) == IF key \in NameKeys THEN Names(nFound[key]) ELSE nFound[key]

PassesAsParty(key, candidate) ==
  /\ candidate # ""
  /\ IF key \in NameKeys THEN IsPartyName(Codes(candidate)) ELSE IsPartyAddress(Codes(candidate))

\* the field of a cascade holds its first passing candidate, and is absent if
\* no candidate passes
FirstPassingParty(key) ==
  LET passing == {i \in DOMAIN CandidatesOf(key) : PassesAsParty(key, CandidatesOf(key)[i])}
  IN IF passing = {} THEN key \notin DOMAIN nInfo
     ELSE key \in DOMAIN nInfo /\ nInfo[key] = Str(CandidatesOf(key)[Least(passing)])

\* C27: every name that the party information extractor emits (employee,
\* employer, recipient, payer) holds letters and blanks only and 3 to 50
\* characters, every address it emits has the minimum length and is not a
\* label of the form, and a candidate that fails its validator makes the
\* cascade go on to the next pattern.
C27_EmittedPartyInfoValid ==
  npc = "returned" =>
    /\ \A key \in DOMAIN nInfo \cap NameKeys : IsPartyName(Codes(nInfo[key].v))
    /\ \A key \in DOMAIN nInfo \cap AddressKeys : IsPartyAddress(Codes(nInfo[key].v))
    /\ \A key \in DOMAIN nFound \ {"is1099Form"} : FirstPassingParty(key)

----------------------------------------------------------------------------
(* Claims on the parties of the structured passes *)

PartyFieldNames ==
  {"employerName", "employerEIN", "payerName", "payerTIN", "recipientName", "recipientTIN",
   "employeeAddress", "employerAddress", "payerAddress", "recipientAddress"}

\* the strings that the transcript of the run yields for the parties
OcrPartyStrings ==
  {content.info1099[x] : x \in DOMAIN content.info1099}
  \cup {content.infoW2[x] : x \in DOMAIN content.infoW2}

\* the rows of the pass's table that map a party field supplied as a
\* non-empty string
SuppliedPartyRows ==
  {i \in DOMAIN MappingTable(documentType) :
     /\ MappingTable(documentType)[i][2] \in PartyFieldNames
     /\ MappingTable(documentType)[i][1] \in DOMAIN fields
     /\ fields[MappingTable(documentType)[i][1]].k = "string"
     /\ fields[MappingTable(documentType)[i][1]].v # ""}

\* C28: in every structured pass (W-2 and the four 1099 subtypes) a party
\* name, tax ID or address that the vendor supplies as a non-empty string is
\* returned as a string, the vendor's text or a string taken from the
\* transcript, never as a number.
C28_PartyFieldsStayText ==
  (mpc = "returned" /\ documentType \in DocumentTypeValues) =>
    \A i \in SuppliedPartyRows :
      /\ Get(result, MappingTable(documentType)[i][2]).k = "string"
      /\ \/ Get(result, MappingTable(documentType)[i][2]) = fields[MappingTable(documentType)[i][1]]
         \/ Get(result, MappingTable(documentType)[i][2]) \in OcrPartyStrings

----------------------------------------------------------------------------
(* Claims on the order of gap-fill and reconciler *)

\* the fill branch of the reconciler's loop is taken for the field
FillBranchTaken(field) ==
  /\ Abs(AmountOf(structuredData, field) - AmountOf(ocrData, field)) <= 100
  /\ AmountOf(structuredData, field) = 0 \/ ~Truthy(Get(structuredData, field))
  /\ AmountOf(ocrData, field) > 0

\* the relocation of fishingBoatProceeds to otherIncome is taken on obj
RelocationTaken(obj) ==
  /\ Truthy(Get(obj, "fishingBoatProceeds"))
  /\ ~Truthy(Get(obj, "otherIncome"))
  /\ AmountOf(obj, "fishingBoatProceeds") > 0
  /\ AmountOf(ocrData, "otherIncome") > 0
  /\ AmountOf(ocrData, "fishingBoatProceeds") = 0
  /\ Abs(AmountOf(obj, "fishingBoatProceeds") - AmountOf(ocrData, "otherIncome")) < 100

\* C29: in the 1099-MISC pass the reconciler receives data in which an
\* expected box field that is absent or zero has no positive OCR value, so
\* neither the reconciler's fill branch nor the relocation of
\* fishingBoatProceeds to otherIncome is taken inside process1099MiscFields.
C29_GapFillBeforeReconciler ==
  mpc = "validated" =>
    /\ \A i \in DOMAIN expectedFields :
         IsMissing(structuredData, expectedFields[i]) =>
           ~(AmountOf(ocrData, expectedFields[i]) > 0)
    /\ \A i \in DOMAIN criticalFields : ~FillBranchTaken(criticalFields[i])
    /\ ~RelocationTaken(structuredData)

\* the reconciler has run on a document whose mapped fields alone would have
\* met the relocation rule, and on which the gap-fill recovered otherIncome
C29_Witness ==
  /\ mpc = "validated"
  /\ RelocationTaken(mapped)
  /\ Get(structuredData, "otherIncome") = Get(ocrData, "otherIncome")

----------------------------------------------------------------------------
(* Claims on the saves of Form 1040 data *)

Form1040Documents == {i \in DOMAIN qDocuments : IsForm1040Document(qDocuments[i])}

\* C30: after any sequence of POST saves of Form 1040 data for one tax
\* return, two POSTs whose database steps interleave included, at most one
\* stored Form_1040 document exists for the tax return.
C30_AtMostOneForm1040 == Cardinality(Form1040Documents) <= 1

====
